---------------------------- MODULE Spec2Model ----------------------------
(***************************************************************************)
(* State-machine model of the WhatsApp legal assistant:                    *)
(*   - Chatbot.handle_incoming_message (src/chatbot_logic.py), driven by   *)
(*     the webhook dispatch of src/app.py;                                 *)
(*   - AIConversationManager.process (src/ai_orchestrator.py);             *)
(*   - the persistence operations of src/database.py.                      *)
(* The calendar provider, the classifier and the notification channel are  *)
(* external collaborators: each call returns a value drawn from a bounded  *)
(* set or raises, chosen per turn by the environment.                      *)
(***************************************************************************)
EXTENDS Integers, Sequences, FiniteSets, TLC

\* ------------------------------------------------------------------ bounds
\* slot start instants offered by the calendar are 1..MaxSlot (all in the future)
MaxSlot == 2
\* cap on the number of calendar events created in one behaviour
MaxEvents == 1
\* the same cap where two request threads overlap (room for both to book)
MaxConcEvents == 2

\* ----------------------------------------------------------------- helpers
\* Python None / SQL NULL for string-valued fields
None == "<None>"

\* dict with no key
EmptyDict == [k \in {} |-> 0]
\* d[k] = v on a dict
Put(d, k, v) == [x \in (DOMAIN d) \cup {k} |-> IF x = k THEN v ELSE d[x]]
\* d.get(k, default)
Get(d, k, default) == IF k \in DOMAIN d THEN d[k] ELSE default
\* d.get(k) used as a condition on an id (a positive integer when present)
GetTruthy(d, k) == k \in DOMAIN d /\ d[k] # 0

\* seq[:n]
Take(s, n) == SubSeq(s, 1, IF Len(s) < n THEN Len(s) ELSE n)

\* datetime.isoformat() / datetime.fromisoformat(): the stored text of an instant
IsoFormat(t) == [iso |-> t]
FromIsoFormat(s) == s.iso
\* database._to_utc_iso: the UTC text stored in reunioes.meeting_datetime
ToUtcIso(t) == [utc |-> t]
FromUtcIso(s) == s.utc

\* a slot is (start, end) with a 60 minute duration; in state it is kept as text
SlotOf(t) == <<t, t + 1>>
SlotsToData(slots) == [i \in 1..Len(slots) |-> <<IsoFormat(slots[i][1]), IsoFormat(slots[i][2])>>]

\* strictly increasing sequences over 1..MaxSlot: what the slot finder may return
RECURSIVE IncSeqs(_)
IncSeqs(lo) ==
    {<<>>} \cup UNION {{<<SlotOf(t)>> \o r : r \in IncSeqs(t + 1)} : t \in lo..MaxSlot}
SlotLists == IncSeqs(1)

\* ------------------------------------------------------------ user numbers
RawNumbers == {"55 (11) 9", "55119"}
\* the form the provider reports for a user whose turns come one at a time
ProviderNumbers == {"55 (11) 9"}
\* normalize_number: re.sub(r"\D+", "", raw)
normalize_number(raw) ==
    CASE raw = "55 (11) 9" -> "55119"
      [] raw = "55119" -> "55119"
      [] raw = "55228" -> "55228"
      [] raw \in {"status", "admin", ""} -> ""
Numbers == {normalize_number(r) : r \in RawNumbers}


\* ------------------------------------------------------- message features
\* The texts a user sends.  Every predicate below is the source's test
\* evaluated on these texts.
Messages ==
    {"oi", "menu", "preciso de ajuda", "cancelar", "adiantar",
     "1", "2", "3", "4", "5", "9", "voltar", "mais", "todas", "10/11/2026",
     "sim", "nao", "manha", "tarde", "a@b.com", "not-an-email", "Maria Silva", "ab",
     "quanto custa uma consulta", "quero agendar", "sofri um acidente"}

\* contains_any(message, HELP_KEYWORDS)
HasHelpKeyword(m) == m \in {"preciso de ajuda", "sofri um acidente"}
\* contains_any(message, GREET_KEYWORDS)
HasGreetKeyword(m) == m \in {"oi", "menu"}
\* contains_any(message, ["cancelar", "cancelamento", "desmarcar", "remarcar"])
HasCancelKeyword(m) == m \in {"cancelar"}
\* contains_any(message, ["adiantar", "antecipar", "mais cedo"])
HasEarlierKeyword(m) == m \in {"adiantar"}
\* contains_any(message, ["menu"])
HasMenuKeyword(m) == m \in {"menu"}
\* len(message)
MsgLen(m) ==
    CASE m \in {"1", "2", "3", "4", "5", "9"} -> 1
      [] m \in {"oi", "ab"} -> 2
      [] m \in {"sim", "nao"} -> 3
      [] m \in {"menu", "mais"} -> 4
      [] m \in {"todas", "manha", "tarde"} -> 5
      [] m \in {"voltar", "#pause"} -> 6
      [] m \in {"a@b.com", "#resume", "#status"} -> 7
      [] m \in {"cancelar", "adiantar", "#pause 1"} -> 8
      [] m = "10/11/2026" -> 10
      [] m = "Maria Silva" -> 11
      [] m = "not-an-email" -> 12
      [] m = "quero agendar" -> 13
      [] m = "preciso de ajuda" -> 16
      [] m = "sofri um acidente" -> 17
      [] m = "quanto custa uma consulta" -> 25

\* re.search(r"\b([1-hi])\b", message): the first stand-alone digit in 1..hi, 0 if none
DigitIn(m, hi) ==
    CASE m = "1" /\ hi >= 1 -> 1
      [] m = "2" /\ hi >= 2 -> 2
      [] m = "3" /\ hi >= 3 -> 3
      [] m = "4" /\ hi >= 4 -> 4
      [] m = "5" /\ hi >= 5 -> 5
      [] OTHER -> 0

\* int(message.strip()): the integer, or -1 for ValueError
IntOf(m) ==
    CASE m = "1" -> 1 [] m = "2" -> 2 [] m = "3" -> 3 [] m = "4" -> 4
      [] m = "5" -> 5 [] m = "9" -> 9 [] OTHER -> -1

\* re.match(r"^[^@\s]+@[^@\s]+\.[^@\s]+$", email)
IsEmail(m) == m \in {"a@b.com"}
\* contains_any(urgency_text, ["sim", "prazo", "audien", "urgente"])
HasUrgencyKeyword(m) == m \in {"sim"}
\* "manh" in pref / "tard" in pref
HasManh(m) == m \in {"manha"}
HasTard(m) == m \in {"tarde"}
\* datetime.strptime(query, "%d/%m/%Y") succeeds: the day it names, 0 for ValueError
ParseDate(m) == IF m = "10/11/2026" THEN 1 ELSE 0
\* the calendar day of an instant: two slots per day
DayOf(t) == (t + 1) \div 2

\* detect_intent
detect_intent(m) ==
    IF HasHelpKeyword(m) THEN "LEAD"
    ELSE IF HasGreetKeyword(m) THEN "GREET"
    ELSE IF HasCancelKeyword(m) THEN "CANCEL"
    ELSE IF DigitIn(m, 4) # 0 THEN "MENU_CHOICE"
    ELSE "UNKNOWN"

\* ------------------------------------------------------------- persistence
\* clientes rows keyed by whatsapp_number; reunioes rows in insertion order,
\* the row id being the position.
NextClientId(clients) == Cardinality(DOMAIN clients) + 1

\* database.upsert_client: insert, or overwrite only the fields given non-None
upsert_client(clients, number, full_name, email, case_summary, lead_priority) ==
    IF number \notin DOMAIN clients
    THEN Put(clients, number,
             [id |-> NextClientId(clients), full_name |-> full_name, email |-> email,
              case_summary |-> case_summary, lead_priority |-> lead_priority])
    ELSE LET old == clients[number] IN
         Put(clients, number,
             [id |-> old.id,
              full_name |-> IF full_name # None THEN full_name ELSE old.full_name,
              email |-> IF email # None THEN email ELSE old.email,
              case_summary |-> IF case_summary # None THEN case_summary ELSE old.case_summary,
              lead_priority |-> IF lead_priority # None THEN lead_priority ELSE old.lead_priority])

\* the number whose client row has this id ("" if none)
NumberOfClient(clients, cid) ==
    IF \E n \in DOMAIN clients : clients[n].id = cid
    THEN CHOOSE n \in DOMAIN clients : clients[n].id = cid
    ELSE ""

\* add_meeting whose INSERT is never committed
add_meeting_uncommitted(meetings, client_id, event_id, meeting_datetime, status) == meetings

\* database.add_meeting
add_meeting(meetings, client_id, event_id, meeting_datetime, status) ==
    Append(meetings, [id |-> Len(meetings) + 1, client_id |-> client_id,
                      google_calendar_event_id |-> event_id,
                      meeting_datetime |-> ToUtcIso(meeting_datetime), status |-> status])

\* database.update_meeting_status
update_meeting_status(meetings, meeting_id, status) ==
    [i \in 1..Len(meetings) |->
        IF meetings[i].id = meeting_id THEN [meetings[i] EXCEPT !.status = status]
        ELSE meetings[i]]

\* ORDER BY meeting_datetime ASC over row ids (ties in rowid order)
RECURSIVE SortedIds(_, _)
SortedIds(meetings, ids) ==
    IF ids = {} THEN <<>>
    ELSE LET first == CHOOSE i \in ids : \A j \in ids :
                          \/ FromUtcIso(meetings[i].meeting_datetime) < FromUtcIso(meetings[j].meeting_datetime)
                          \/ /\ FromUtcIso(meetings[i].meeting_datetime) = FromUtcIso(meetings[j].meeting_datetime)
                             /\ i <= j
         IN <<first>> \o SortedIds(meetings, ids \ {first})

\* the joined row (r.*, c.whatsapp_number) of a meeting
JoinedRow(clients, m) ==
    [id |-> m.id, google_calendar_event_id |-> m.google_calendar_event_id,
     meeting_datetime |-> m.meeting_datetime,
     whatsapp_number |-> NumberOfClient(clients, m.client_id)]

\* database.get_future_meetings(start_from): MARCADA rows at or after start_from
get_future_meetings(clients, meetings, start_from) ==
    LET ids == {i \in 1..Len(meetings) :
                   /\ meetings[i].status = "MARCADA"
                   /\ FromUtcIso(meetings[i].meeting_datetime) >= start_from}
        order == SortedIds(meetings, ids)
    IN [k \in 1..Len(order) |-> JoinedRow(clients, meetings[order[k]])]

\* database.get_meetings_between for the whole of one day
get_meetings_between(clients, meetings, day) ==
    LET ids == {i \in 1..Len(meetings) :
                   /\ meetings[i].status = "MARCADA"
                   /\ DayOf(FromUtcIso(meetings[i].meeting_datetime)) = day}
        order == SortedIds(meetings, ids)
    IN [k \in 1..Len(order) |-> JoinedRow(clients, meetings[order[k]])]

\* the rows of every client, whoever asks
RowsOfAnyNumber(rows, number) == rows

\* [r for r in rows if r["whatsapp_number"] == number]
RECURSIVE RowsOfNumber(_, _)
RowsOfNumber(rows, number) ==
    IF rows = <<>> THEN <<>>
    ELSE (IF Head(rows).whatsapp_number = number THEN <<Head(rows)>> ELSE <<>>)
         \o RowsOfNumber(Tail(rows), number)

\* datetime.utcnow(): every offered slot lies after it
UtcNow == 0


\* ------------------------------------------------ the world a turn acts on
\* st, data : the user's entry of conversation_state.state_by_user (get() makes
\*            the default entry, so an absent entry is the default one)
\* cur      : the local `current`, read once at the start of the turn
\* loc      : the dict the local name `data` is bound to; alias says whether it
\*            is the very object stored in the entry (in-place writes show there)
\* sd       : what the local alias `state` yields for state.get("data") when the
\*            entry object was removed from the map since it was read
\* created, added, deleted, updated : the collaborator writes of this turn
\* replaced, oldc, cleared, clearc : the entry's data object (its content then)
\*            was swapped for another / the entry was deleted in this turn
R(kind, arg) == [kind |-> kind, arg |-> arg, reworded |-> FALSE]

NewWorld(st, data, cur, loc, alias, sd, clients, meetings, events, nEvents) ==
    [st |-> st, data |-> data, cur |-> cur, loc |-> loc, alias |-> alias, sd |-> sd,
     clients |-> clients, meetings |-> meetings, events |-> events, nEvents |-> nEvents,
     replies |-> <<>>, raised |-> FALSE, hit |-> "none",
     created |-> <<>>, added |-> <<>>, deleted |-> <<>>, updated |-> <<>>,
     replaced |-> FALSE, oldc |-> EmptyDict, cleared |-> FALSE, clearc |-> EmptyDict,
     now |-> UtcNow]

\* ConversationState.set(user, "state", value)
SetState(w, s) == [w EXCEPT !.st = s]
\* ConversationState.set(user, "data", data) with the local dict itself
SetDataLocal(w) ==
    IF w.alias THEN w
    ELSE [w EXCEPT !.data = w.loc, !.alias = TRUE,
                   !.replaced = TRUE, !.oldc = IF w.replaced THEN w.oldc ELSE w.data]
\* ConversationState.set(user, "data", d) with a newly built dict d
SetDataNew(w, d) ==
    [w EXCEPT !.data = d, !.alias = FALSE,
              !.replaced = TRUE, !.oldc = IF w.replaced THEN w.oldc ELSE w.data]
\* ConversationState.clear(user)
ClearEntry(w) ==
    [w EXCEPT !.st = "INIT", !.data = EmptyDict, !.alias = FALSE,
              !.cleared = TRUE, !.clearc = w.data]
\* data[k] = v on the local dict
Mutate(w, k, v) ==
    [w EXCEPT !.loc = Put(w.loc, k, v),
              !.data = IF w.alias THEN Put(w.data, k, v) ELSE w.data]
\* data = state.get("data", {})
Rebind(w) ==
    IF w.sd.live THEN [w EXCEPT !.loc = w.data, !.alias = TRUE]
    ELSE [w EXCEPT !.loc = w.sd.val, !.alias = FALSE]
\* return replies / an exception leaves the handler
Return(w, replies) == [w EXCEPT !.replies = replies]
Raise(w, site) == [w EXCEPT !.raised = TRUE, !.hit = site]
\* an exception caught inside the handler
Caught(w, site) == [w EXCEPT !.hit = site]

\* database.upsert_client on the world
Upsert(w, number, full_name, email, case_summary, lead_priority) ==
    [w EXCEPT !.clients = upsert_client(w.clients, number, full_name, email,
                                        case_summary, lead_priority)]

\* calendar_service.create_event: the provider stores the event and returns its id
create_event(w, start) ==
    [w EXCEPT !.nEvents = w.nEvents + 1, !.events = w.events \cup {w.nEvents + 1},
              !.created = Append(w.created, [id |-> w.nEvents + 1, start |-> start])]
\* calendar_service.delete_event
delete_event(w, event_id) ==
    [w EXCEPT !.events = w.events \ {event_id}, !.deleted = Append(w.deleted, event_id)]
\* calendar_service.update_event
update_event(w, event_id, start) ==
    [w EXCEPT !.updated = Append(w.updated, [id |-> event_id, start |-> start])]
\* database.update_meeting_time_by_event
update_meeting_time_by_event(meetings, event_id, start) ==
    [i \in 1..Len(meetings) |->
        IF meetings[i].google_calendar_event_id = event_id
        THEN [meetings[i] EXCEPT !.meeting_datetime = ToUtcIso(start)]
        ELSE meetings[i]]

\* present_slots(slots): the reply lists the first three slots (none: an apology)
present_slots(slots) == R("present_slots", Len(Take(slots, 3)))
\* ai_service.small_talk_reply(base_text): base_text itself when no model is
\* configured or generation fails, otherwise the model's rewording of it; the
\* result is marked as one of the two
small_talk_reply(r) == [r EXCEPT !.reworded = TRUE]
\* calendar_service.get_next_business_days(count): the next `count` business days
get_next_business_days(count) == [i \in 1..count |-> i]
\* calendar_service.get_available_slots_for_date: the free slots of that day
get_available_slots_for_date(free, day) == SelectSeq(free, LAMBDA sl : DayOf(sl[1]) = day)
\* m.group(1) of a matched digit
DigitStr(d) == CASE d = 1 -> "1" [] d = 2 -> "2" [] d = 3 -> "3" [] d = 4 -> "4" [] d = 5 -> "5"

\* ----------------------------------------------- Chatbot (chatbot_logic.py)
\* state INIT
HandleInit(w, number, message, oc) ==
    LET intent == detect_intent(message) IN
    IF intent = "LEAD"
    THEN Return(SetState(w, "LEAD_Q_START"), <<R("lead_intro", 0), R("ask_name", 0)>>)
    ELSE IF intent = "CANCEL"
    THEN Return(SetState(w, "CANCEL_LOOKUP"), <<R("cancel_prompt", 0)>>)
    ELSE IF HasEarlierKeyword(message)
    THEN IF oc.fail = "get_future_by_number" THEN Raise(w, "get_future_by_number")
         ELSE LET existing == RowsOfNumber(get_future_meetings(w.clients, w.meetings, w.now), number) IN
              IF existing = <<>>
              THEN Return(SetState(w, "SCHEDULING_PREF_PERIOD"), <<R("no_active_ask_period", 0)>>)
              ELSE LET w1 == Mutate(w, "pref_period", Get(w.loc, "pref_period", "indiferente"))
                       w2 == Mutate(w1, "reschedule_event_id", existing[1].google_calendar_event_id)
                       w3 == SetState(SetDataLocal(w2), "SCHEDULING_SHOW_SLOTS")
                   IN IF oc.fail = "slots" THEN Raise(w3, "slots")
                      ELSE Return(SetDataNew(w3, Put(w3.loc, "slots", SlotsToData(Take(oc.fresh, 3)))),
                                  <<R("earlier_options", 0), present_slots(oc.fresh)>>)
    ELSE IF MsgLen(message) >= 15 /\ oc.ai = "legal"
    THEN Return(w, <<R("legal_answer", 0)>>)
    ELSE \* GREET / UNKNOWN, and MENU_CHOICE through the default fallback
         Return(SetState(w, "FREE_CHAT"), <<R("greeting", 0)>>)

\* state MENU
HandleMenu(w, number, message, oc) ==
    LET intent == detect_intent(message)
        selected == DigitIn(message, 4)
        rows == RowsOfNumber(get_future_meetings(w.clients, w.meetings, w.now), number)
    IN
    IF intent = "CANCEL"
    THEN Return(SetState(w, "CANCEL_LOOKUP"), <<R("cancel_prompt", 0)>>)
    ELSE IF intent = "MENU_CHOICE" /\ selected = 1
    THEN Return(w, <<R("areas", 0)>>)
    ELSE IF intent = "MENU_CHOICE" /\ selected = 2
    THEN IF oc.fail = "get_future" THEN Raise(w, "get_future")
         ELSE IF rows # <<>>
         THEN Return(w, <<R("already_booked", FromUtcIso(rows[1].meeting_datetime)),
                          R("offer_earlier_or_cancel", 0), R("earlier_or_cancel_hint", 0)>>)
         ELSE IF oc.fail = "get_client" THEN Raise(w, "get_client")
         ELSE IF number \in DOMAIN w.clients
         THEN \* client.get("full_name") on a sqlite3.Row: AttributeError
              Raise(w, "row_get")
         ELSE Return(SetState(SetDataLocal(w), "SCHEDULING_ASK_NAME"), <<R("ask_name_first", 0)>>)
    ELSE IF intent = "MENU_CHOICE" /\ selected = 3
    THEN Return(w, <<R("info", 0)>>)
    ELSE IF intent = "MENU_CHOICE" /\ selected = 4
    THEN IF oc.fail = "get_future" THEN Raise(w, "get_future")
         ELSE IF rows = <<>> THEN Return(w, <<R("no_future_meetings", 0)>>)
         ELSE Return(w, <<R("my_meetings", Len(Take(rows, 5)))>>)
    ELSE IF MsgLen(message) >= 15 /\ oc.ai = "legal"
    THEN Return(w, <<R("legal_answer", 0)>>)
    ELSE Return(w, <<R("menu", 0)>>)

\* state FREE_CHAT; a menu digit re-enters handle_incoming_message in MENU
HandleFreeChat(w, number, message, oc) ==
    IF HasMenuKeyword(message)
    THEN Return(SetState(w, "MENU"), <<R("menu", 0)>>)
    ELSE IF HasCancelKeyword(message)
    THEN Return(SetState(w, "CANCEL_LOOKUP"), <<R("cancel_prompt", 0)>>)
    ELSE IF DigitIn(message, 4) # 0
    THEN LET w1 == SetState(w, "MENU")
             w2 == [w1 EXCEPT !.cur = "MENU", !.loc = w1.data, !.alias = TRUE,
                              !.sd = [live |-> TRUE, val |-> EmptyDict]]
         IN IF oc.fail = "upsert_nested" THEN Raise(w2, "upsert_nested")
            ELSE HandleMenu(Upsert(w2, number, None, None, None, None), number,
                            DigitStr(DigitIn(message, 4)), oc)
    ELSE IF MsgLen(message) >= 8 /\ oc.ai = "legal"
    THEN Return(w, <<R("legal_answer", 0)>>)
    ELSE Return(w, <<small_talk_reply(R("suggest_menu", 0))>>)

\* state SCHEDULING_PREF_PERIOD
HandlePrefPeriod(w, number, message, oc) ==
    LET pref_val == IF HasManh(message) THEN "manha"
                    ELSE IF HasTard(message) THEN "tarde" ELSE "indiferente"
        w1 == SetDataLocal(Mutate(w, "pref_period", pref_val))
        w2 == SetState(w1, "SCHEDULING_CHOOSE_DATE")
        days == get_next_business_days(5)
        w3 == SetDataLocal(Mutate(w2, "dates", days))
    IN Return(w3, <<small_talk_reply(R("choose_date", Len(days)))>>)

\* state SCHEDULING_ASK_NAME
HandleAskName(w, number, message, oc) ==
    IF MsgLen(message) < 3 THEN Return(w, <<R("ask_full_name", 0)>>)
    ELSE IF oc.fail = "upsert_name" THEN Raise(w, "upsert_name")
    ELSE LET w1 == Upsert(w, number, message, None, None, None)
             w2 == SetDataLocal(Mutate(w1, "full_name", message))
         IN Return(SetState(w2, "SCHEDULING_PREF_PERIOD"), <<R("ask_period", 0)>>)

\* state SCHEDULING_CHOOSE_DATE
HandleChooseDate(w, number, message, oc) ==
    IF message = "voltar"
    THEN Return(SetState(w, "FREE_CHAT"), <<R("greeting", 0)>>)
    ELSE LET m == DigitIn(message, 5)
             w1 == Rebind(w)
             dates == Get(w1.loc, "dates", <<>>)
         IN IF m = 0 \/ dates = <<>>
            THEN Return(w1, <<R("reprompt_date", 0)>>)
            ELSE IF m - 1 >= Len(dates)
            THEN Return(w1, <<R("invalid_date", 0)>>)
            ELSE LET slots == IF oc.fail = "slots" THEN <<>>
                              ELSE get_available_slots_for_date(oc.fresh, dates[m])
                     w2 == IF oc.fail = "slots" THEN Caught(w1, "slots") ELSE w1
                     w3 == SetState(w2, "SCHEDULING_SHOW_SLOTS")
                     w4 == SetDataNew(w3, Put(w3.loc, "slots", SlotsToData(Take(slots, 3))))
                 IN Return(w4, <<small_talk_reply(present_slots(slots)),
                                 R("more_or_back_hint", 0)>>)

\* states LEAD_Q_START and ASK_NAME
HandleLeadName(w, number, message, oc) ==
    LET w1 == SetDataLocal(Mutate(w, "full_name", message))
        w2 == SetState(w1, "ASK_EMAIL")
        w3 == IF oc.fail = "upsert_lead" THEN Caught(w2, "upsert_lead")
              ELSE Upsert(w2, number, message, None, None, None)
    IN Return(w3, <<R("ask_email", 0)>>)

\* state ASK_EMAIL
HandleAskEmail(w, number, message, oc) ==
    IF message # "" /\ ~IsEmail(message)
    THEN Return(w, <<R("bad_email", 0)>>)
    ELSE LET w1 == SetDataLocal(Mutate(w, "email", message))
             w2 == IF oc.fail = "upsert_email" THEN Caught(w1, "upsert_email")
                   ELSE Upsert(w1, number, None, message, None, None)
         IN Return(SetState(w2, "ASK_SUMMARY"), <<R("ask_summary", 0)>>)

\* state ASK_SUMMARY
HandleAskSummary(w, number, message, oc) ==
    Return(SetState(SetDataLocal(Mutate(w, "case_summary", message)), "ASK_URGENCY"),
           <<R("ask_urgency", 0)>>)

\* state ASK_URGENCY
HandleAskUrgency(w, number, message, oc) ==
    LET priority == IF HasUrgencyKeyword(message) THEN "ALTA" ELSE "MEDIA"
        w1 == Mutate(w, "lead_priority", priority)
    IN IF oc.fail = "upsert_urgency" THEN Raise(w1, "upsert_urgency")
       ELSE LET w2 == Upsert(w1, number, Get(w1.loc, "full_name", None), Get(w1.loc, "email", None),
                             Get(w1.loc, "case_summary", None), priority)
                client_id == w2.clients[number].id
                w3 == SetDataNew(w2, Put(w2.loc, "client_id", client_id))
                w4 == SetState(w3, "SCHEDULING_SHOW_SLOTS")
                slots == IF oc.fail = "slots" THEN <<>> ELSE oc.fresh
                w5 == IF oc.fail = "slots" THEN Caught(w4, "slots") ELSE w4
                w6 == SetDataNew(w5, Put(Put(w5.loc, "client_id", client_id),
                                         "slots", SlotsToData(Take(slots, 3))))
            IN Return(w6, <<small_talk_reply(R("thank_you", 0)), present_slots(slots)>>)

\* a booking that first looks for a MARCADA meeting at the chosen start and
\* books nothing when there is one
BookChosenIfFree(w, number, start, oc) ==
    IF \E i \in 1..Len(w.meetings) :
           /\ w.meetings[i].status = "MARCADA"
           /\ FromUtcIso(w.meetings[i].meeting_datetime) = start
    THEN w
    ELSE LET w1 == create_event(w, start) IN
         [w1 EXCEPT !.meetings = add_meeting(w1.meetings, w1.clients[number].id, w1.nEvents,
                                             start, "MARCADA")]

\* the booking of a chosen slot (chatbot_logic.py, inside the try)
BookChosen(w, number, start, oc) ==
    IF GetTruthy(w.loc, "reschedule_event_id")
    THEN IF oc.fail = "update_event" THEN Caught(w, "update_event")
         ELSE LET w1 == update_event(w, w.loc["reschedule_event_id"], start) IN
              IF oc.fail = "update_time" THEN Caught(w1, "update_time")
              ELSE [w1 EXCEPT !.meetings = update_meeting_time_by_event(
                                               w1.meetings, w.loc["reschedule_event_id"], start)]
    ELSE IF oc.fail = "create_event" THEN Caught(w, "create_event")
         ELSE LET w1 == create_event(w, start)
                  event_id == w1.nEvents
                  w2 == IF number \in DOMAIN w1.clients \/ GetTruthy(w1.loc, "client_id") THEN w1
                        ELSE Upsert(w1, number, None, None, None, None)
                  client_id == IF number \in DOMAIN w1.clients THEN w1.clients[number].id
                               ELSE IF GetTruthy(w1.loc, "client_id") THEN w1.loc["client_id"]
                               ELSE w2.clients[number].id
              IN IF oc.fail = "add_meeting" THEN Caught(w2, "add_meeting")
                 ELSE [w2 EXCEPT !.meetings = add_meeting(w2.meetings, client_id, event_id,
                                                          start, "MARCADA"),
                                 !.added = Append(w2.added,
                                     [client_id |-> client_id, event_id |-> event_id,
                                      start |-> start, status |-> "MARCADA"])]

\* state SCHEDULING_SHOW_SLOTS
HandleShowSlots(w, number, message, oc) ==
    IF message = "voltar"
    THEN Return(SetState(w, "MENU"), <<R("menu", 0)>>)
    ELSE
    LET w1 == Rebind(w)
        fresh == IF oc.fail = "slots" THEN <<>> ELSE oc.fresh
        wf == IF oc.fail = "slots" THEN Caught(w1, "slots") ELSE w1
        choice == DigitIn(message, 3)
        slots == Get(w1.loc, "slots", <<>>)
    IN
    IF message = "mais"
    THEN Return(SetDataNew(wf, Put(wf.loc, "slots", SlotsToData(Take(fresh, 3)))),
                <<small_talk_reply(present_slots(fresh)), R("more_or_back_hint", 0)>>)
    ELSE IF slots = <<>>
    THEN IF fresh # <<>>
         THEN Return(SetDataNew(wf, Put(wf.loc, "slots", SlotsToData(Take(fresh, 3)))),
                     <<small_talk_reply(present_slots(fresh)), R("more_or_back_hint", 0)>>)
         ELSE Return(wf, <<R("no_slots", 0)>>)
    ELSE IF choice # 0
    THEN IF choice > Len(slots)
         THEN \* slots[idx] raises IndexError
              Return(w1, <<R("invalid_slot", 0)>>)
         ELSE IF oc.fail = "get_client" THEN Raise(w1, "get_client")
         ELSE LET start == FromIsoFormat(slots[choice][1])
                  w2 == BookChosen(w1, number, start, oc)
              IN IF w2.hit # "none"
                 THEN Return(w2, <<R("booking_error", 0)>>)
                 ELSE Return(SetDataNew(SetState(w2, "FREE_CHAT"), EmptyDict),
                             <<small_talk_reply(R("confirm", start)),
                               small_talk_reply(R("follow", 0))>>)
    ELSE Return(w1, <<R("not_understood_slot", 0)>>)

\* state CANCEL_LOOKUP
HandleCancelLookup(w, number, message, oc) ==
    IF message = "todas" /\ oc.fail = "get_future" THEN Raise(w, "get_future")
    ELSE IF message # "todas" /\ ParseDate(message) = 0
    THEN Return(w, <<R("bad_date_format", 0)>>)
    ELSE IF message # "todas" /\ oc.fail = "get_between"
    THEN Return(Caught(w, "get_between"), <<R("bad_date_format", 0)>>)
    ELSE LET all == IF message = "todas"
                    THEN get_future_meetings(w.clients, w.meetings, w.now)
                    ELSE get_meetings_between(w.clients, w.meetings, ParseDate(message))
             rows == RowsOfNumber(all, number)
         IN IF rows = <<>> THEN Return(w, <<R("no_meetings_found", 0)>>)
            ELSE Return(SetDataNew(SetState(w, "CANCEL_CHOOSE"),
                                   [cancel_rows |-> Take(rows, 5)]),
                        <<R("which_to_cancel", Len(Take(rows, 5)))>>)

\* CANCEL_CHOOSE taking the first listed meeting when the text holds no digit
HandleCancelChooseDefaultFirst(w, number, message, oc) ==
    IF message = "voltar"
    THEN Return(SetState(w, "MENU"), <<R("menu", 0)>>)
    ELSE LET m == IF DigitIn(message, 5) = 0 THEN 1 ELSE DigitIn(message, 5)
             rows == Get(IF w.sd.live THEN w.data ELSE w.sd.val, "cancel_rows", <<>>)
         IN IF m - 1 >= Len(rows) THEN Return(w, <<R("invalid_cancel", 0)>>)
            ELSE LET w1 == delete_event(w, rows[m].google_calendar_event_id)
                 IN Return(ClearEntry([w1 EXCEPT !.meetings =
                               update_meeting_status(w1.meetings, rows[m].id, "CANCELADA")]),
                           <<R("cancelled_ok", 0)>>)

\* state CANCEL_CHOOSE
HandleCancelChoose(w, number, message, oc) ==
    IF message = "voltar"
    THEN Return(SetState(w, "MENU"), <<R("menu", 0)>>)
    ELSE LET m == DigitIn(message, 5)
             rows == Get(IF w.sd.live THEN w.data ELSE w.sd.val, "cancel_rows", <<>>)
         IN IF m = 0 THEN Return(w, <<R("reprompt_cancel", 0)>>)
            ELSE IF m - 1 >= Len(rows) THEN Return(w, <<R("invalid_cancel", 0)>>)
            ELSE LET chosen == rows[m]
                     w1 == IF oc.fail = "delete_event" THEN Caught(w, "delete_event")
                           ELSE delete_event(w, chosen.google_calendar_event_id)
                     w2 == IF oc.fail = "delete_event" THEN w1
                           ELSE IF oc.fail = "update_status" THEN Caught(w1, "update_status")
                           ELSE [w1 EXCEPT !.meetings =
                                    update_meeting_status(w1.meetings, chosen.id, "CANCELADA")]
                 IN Return(ClearEntry(w2), <<R("cancelled_ok", 0)>>)

\* Chatbot.handle_incoming_message after conversation_state.get
handle_incoming_message(w, number, message, oc) ==
    IF oc.fail = "upsert_start" THEN Raise(w, "upsert_start")
    ELSE LET w1 == Upsert(w, number, None, None, None, None) IN
         CASE w.cur = "INIT" -> HandleInit(w1, number, message, oc)
           [] w.cur = "FREE_CHAT" -> HandleFreeChat(w1, number, message, oc)
           [] w.cur = "MENU" -> HandleMenu(w1, number, message, oc)
           [] w.cur = "SCHEDULING_PREF_PERIOD" -> HandlePrefPeriod(w1, number, message, oc)
           [] w.cur = "SCHEDULING_ASK_NAME" -> HandleAskName(w1, number, message, oc)
           [] w.cur = "SCHEDULING_CHOOSE_DATE" -> HandleChooseDate(w1, number, message, oc)
           [] w.cur \in {"LEAD_Q_START", "ASK_NAME"} -> HandleLeadName(w1, number, message, oc)
           [] w.cur = "ASK_EMAIL" -> HandleAskEmail(w1, number, message, oc)
           [] w.cur = "ASK_SUMMARY" -> HandleAskSummary(w1, number, message, oc)
           [] w.cur = "ASK_URGENCY" -> HandleAskUrgency(w1, number, message, oc)
           [] w.cur = "SCHEDULING_SHOW_SLOTS" -> HandleShowSlots(w1, number, message, oc)
           [] w.cur = "CANCEL_LOOKUP" -> HandleCancelLookup(w1, number, message, oc)
           [] w.cur = "CANCEL_CHOOSE" -> HandleCancelChoose(w1, number, message, oc)
           [] OTHER -> Return(SetState(w1, "FREE_CHAT"), <<R("greeting", 0)>>)

\* ------------------------------------- AIConversationManager (ai_orchestrator.py)
\* any(word in message.lower() for word in ["sim", "quero", "vamos", "ok", "agendar"])
IsAffirmative(m) == m \in {"sim", "quero agendar"}
\* "sim" in message.lower() / "n" in message.lower()
HasSim(m) == m \in {"sim"}
HasN(m) ==
    m \in {"menu", "cancelar", "adiantar", "nao", "manha", "not-an-email",
           "quanto custa uma consulta", "quero agendar", "sofri um acidente"}
\* any(keyword in msg_lower for keyword in value_keywords)
HasValueKeyword(m) == m \in {"quanto custa uma consulta"}

\* a decision: the intent label and whether it carries a response text
Decision(intent, response) == [intent |-> intent, response |-> response]
AIIntents ==
    {"greeting", "schedule", "cancel", "legal", "info", "areas", "list_meetings",
     "small_talk", "qualify"}

\* _fallback_intent
_fallback_intent(m) ==
    CASE m = "sofri um acidente" -> Decision("qualify", "")
      [] m \in {"quero agendar", "quanto custa uma consulta"} -> Decision("schedule", "text")
      [] m = "cancelar" -> Decision("cancel", "text")
      [] m = "oi" -> Decision("greeting", "")
      [] OTHER -> Decision("small_talk", "text")

\* _ai_decide: the model's parsed answer, or the fallback when the call fails
\* or its answer holds no JSON
_ai_decide(m, oc) ==
    IF oc.decision = "fallback" THEN _fallback_intent(m) ELSE Decision(oc.decision, "text")

\* leave a handler with replies and new_state
Result(w, replies, st, data) == [w EXCEPT !.replies = replies, !.st = st, !.data = data]
FreeState(w, replies) == Result(w, replies, "FREE", EmptyDict)

\* the client row process() read, if the number has one
HasClient(w, number) == number \in DOMAIN w.clients
UserMeetings(w, number) ==
    RowsOfNumber(get_future_meetings(w.clients, w.meetings, w.now), number)

\* a stored name that is never taken into account
HasStoredNameIgnored(w, number) == FALSE

\* _handle_schedule: client and client["full_name"] and client["full_name"].strip()
HasStoredName(w, number) ==
    HasClient(w, number) /\ w.clients[number].full_name \notin {None, ""}

\* _handle_chat
_handle_chat(w, message, decision) ==
    FreeState(w, <<IF HasValueKeyword(message) THEN R("fees_info", 0)
                   ELSE IF decision.response # "" THEN R("decision_response", 0)
                   ELSE small_talk_reply(R("assistant_intro", 0))>>)

\* _handle_greeting, _handle_legal, _handle_info, _handle_areas
_handle_greeting(w) == FreeState(w, <<R("greeting", 0)>>)
_handle_legal(w) == FreeState(w, <<R("legal_answer", 0)>>)
_handle_info(w) == FreeState(w, <<R("info", 0)>>)
_handle_areas(w) == FreeState(w, <<R("areas", 0)>>)

\* _handle_list
_handle_list(w, number, oc) ==
    IF oc.fail = "get_future" THEN Raise(w, "get_future")
    ELSE IF UserMeetings(w, number) = <<>> THEN FreeState(w, <<R("no_future_meetings", 0)>>)
    ELSE FreeState(w, <<R("my_meetings", Len(UserMeetings(w, number)))>>)

\* the booking's except branch that keeps the wizard state but drops its data
BookingFailedKeepsState(w, site) ==
    Result(Caught(w, site), <<R("booking_error", 0)>>, w.cur, EmptyDict)

\* _handle_schedule, the except branch of the booking in SCHED_SLOT
BookingFailed(w, site) == FreeState(Caught(w, site), <<R("booking_error", 0)>>)

\* _handle_schedule
_handle_schedule(w, number, message, decision, oc) ==
    LET user_meetings == UserMeetings(w, number)
        m5 == DigitIn(message, 5)
        m3 == DigitIn(message, 3)
        dates == Get(w.loc, "dates", <<>>)
        slots == Get(w.loc, "slots", <<>>)
    IN
    IF oc.fail = "get_future" THEN Raise(w, "get_future")
    ELSE IF user_meetings # <<>> /\ w.cur = "FREE"
    THEN Result(w, <<R("already_booked", FromUtcIso(user_meetings[1].meeting_datetime)),
                     R("reschedule_or_cancel", 0)>>, w.cur, w.loc)
    ELSE IF w.cur = "FREE"
    THEN IF HasStoredName(w, number)
         THEN Result(w, <<R("great_name", 0), R("ask_period", 0)>>, "SCHED_PERIOD",
                     Put(w.loc, "full_name", w.clients[number].full_name))
         ELSE Result(w, <<R("ask_name_first", 0)>>, "SCHED_NAME", w.loc)
    ELSE IF w.cur = "SCHED_NAME"
    THEN IF MsgLen(message) < 3
         THEN Result(w, <<R("ask_full_name", 0)>>, w.cur, w.loc)
         ELSE LET w1 == IF oc.fail = "upsert_name" THEN Caught(w, "upsert_name")
                        ELSE Upsert(w, number, message, None, None, None)
              IN Result(w1, <<R("ask_period", 0)>>, "SCHED_PERIOD",
                        Put(w.loc, "full_name", message))
    ELSE IF w.cur = "SCHED_PERIOD"
    THEN LET period == IF HasManh(message) THEN "manha"
                       ELSE IF HasTard(message) THEN "tarde" ELSE "any"
             days == get_next_business_days(5)
         IN Result(w, <<R("choose_date", Len(days))>>, "SCHED_DATE",
                   Put(Put(w.loc, "period", period), "dates", days))
    ELSE IF w.cur = "SCHED_DATE" /\ (m5 = 0 \/ dates = <<>>)
    THEN Result(w, <<R("reprompt_date", 0)>>, w.cur, w.loc)
    ELSE IF w.cur = "SCHED_DATE" /\ m5 <= Len(dates)
    THEN IF oc.fail = "slots" THEN Raise(w, "slots")
         ELSE LET free == get_available_slots_for_date(oc.fresh, dates[m5]) IN
              IF free = <<>>
              THEN Result(w, <<R("no_slots_that_day", 0)>>, w.cur, w.loc)
              ELSE Result(w, <<R("present_slots", Len(Take(free, 3)))>>, "SCHED_SLOT",
                          Put(w.loc, "slots", SlotsToData(Take(free, 3))))
    ELSE IF w.cur = "SCHED_SLOT" /\ (m3 = 0 \/ slots = <<>>)
    THEN Result(w, <<R("reprompt_slot", 0)>>, w.cur, w.loc)
    ELSE IF w.cur = "SCHED_SLOT" /\ m3 <= Len(slots)
    THEN LET start == FromIsoFormat(slots[m3][1])
             name == IF Get(w.loc, "full_name", "") # "" THEN w.loc["full_name"] ELSE number
         IN IF oc.fail = "create_event" THEN BookingFailed(w, "create_event")
            ELSE LET w1 == create_event(w, start)
                     event_id == w1.nEvents
                 IN IF ~HasClient(w, number) /\ oc.fail = "upsert_booking"
                    THEN BookingFailed(w1, "upsert_booking")
                    ELSE LET w2 == IF HasClient(w, number) THEN w1
                                   ELSE Upsert(w1, number, name, None, None, None)
                             client_id == w2.clients[number].id
                         IN IF oc.fail = "add_meeting" THEN BookingFailed(w2, "add_meeting")
                            ELSE FreeState(
                                   [w2 EXCEPT !.meetings = add_meeting(w2.meetings, client_id,
                                                                      event_id, start, "MARCADA"),
                                              !.added = Append(w2.added,
                                                  [client_id |-> client_id, event_id |-> event_id,
                                                   start |-> start, status |-> "MARCADA"])],
                                   <<R("confirmed", 0), R("confirm", start), R("address", 0),
                                     R("blank", 0), R("reminder_note", 0)>>)
    ELSE _handle_chat(w, message, decision)

\* _handle_cancel
_handle_cancel(w, number, message, decision, oc) ==
    LET user_meetings == UserMeetings(w, number)
        m5 == DigitIn(message, 5)
        opts == Get(w.loc, "cancel_options", <<>>)
        not_understood == Result(w, <<R("not_understood", 0)>>, w.cur, w.loc)
    IN
    IF w.cur = "FREE"
    THEN IF oc.fail = "get_future" THEN Raise(w, "get_future")
         ELSE IF user_meetings = <<>>
         THEN Result(w, <<R("no_future_meetings", 0)>>, w.cur, w.loc)
         ELSE IF Len(user_meetings) = 1
         THEN Result(w, <<R("you_have", FromUtcIso(user_meetings[1].meeting_datetime)),
                          R("confirm_cancel", 0)>>, "CANCEL_CONFIRM",
                     Put(Put(w.loc, "cancel_id", user_meetings[1].id),
                         "cancel_event", user_meetings[1].google_calendar_event_id))
         ELSE Result(w, <<R("which_to_cancel", Len(Take(user_meetings, 5)))>>, "CANCEL_SELECT",
                     Put(w.loc, "cancel_options",
                         [i \in 1..Len(Take(user_meetings, 5)) |->
                             [id |-> user_meetings[i].id,
                              event |-> user_meetings[i].google_calendar_event_id]]))
    ELSE IF w.cur = "CANCEL_SELECT" /\ m5 # 0 /\ opts # <<>> /\ m5 <= Len(opts)
    THEN Result(w, <<R("confirm_cancel", 0)>>, "CANCEL_CONFIRM",
                Put(Put(w.loc, "cancel_id", opts[m5].id), "cancel_event", opts[m5].event))
    ELSE IF w.cur = "CANCEL_CONFIRM" /\ HasSim(message)
    THEN IF oc.fail = "delete_event"
         THEN [not_understood EXCEPT !.hit = "delete_event"]
         ELSE LET w1 == delete_event(w, w.loc["cancel_event"]) IN
              IF oc.fail = "update_status"
              THEN Result(Caught(w1, "update_status"), <<R("not_understood", 0)>>, w.cur, w.loc)
              ELSE FreeState([w1 EXCEPT !.meetings = update_meeting_status(
                                            w1.meetings, w.loc["cancel_id"], "CANCELADA")],
                             <<R("cancelled_ok", 0)>>)
    ELSE IF w.cur = "CANCEL_CONFIRM" /\ HasN(message)
    THEN FreeState(w, <<R("kept_meeting", 0)>>)
    ELSE not_understood

\* ---------------------------------------- LeadQualifier (lead_qualification.py)
\* an answer value: a string, or another Python value given by its repr
Str(s) == [str |-> TRUE, v |-> s]
NonStr(repr) == [str |-> FALSE, v |-> repr]
\* `if answer:` : the empty string, 0 and None are false
AnswerGiven(a) == IF a.str THEN a.v # "" ELSE a.v \notin {"0", "None"}

\* one question of a flow: nopts = 0 is an open question; weight is the
\* question's entry of lead_score_weights
Question(id, options, urgency_check, high_priority, weight) ==
    [id |-> id, nopts |-> Len(options), options |-> options,
     urgency_check |-> urgency_check, high_priority |-> high_priority, weight |-> weight]

QualifyArea == "Responsabilidade Civil"
\* the keys of qualification_flows
MappedAreas == {"Responsabilidade Civil", "Direito das Familias", "Acao Penal", "Medida Protetiva"}
\* an area with no flow (_handle_legal's default area)
UnmappedArea == "Direito Civil"

\* get_questions_for_area: qualification_flows[area]["questions"], [] when unmapped
get_questions_for_area(area) ==
    CASE area = "Responsabilidade Civil" ->
           <<Question("tipo_dano", <<"Danos materiais", "Danos morais", "Ambos", "Outro">>,
                      FALSE, {}, 1),
             Question("valor_prejuizo", <<>>, FALSE, {}, 3),
             Question("responsavel", <<"Pessoa fisica", "Empresa", "Orgao publico", "Nao sei">>,
                      FALSE, {}, 2),
             Question("prazo", <<>>, TRUE, {}, 2)>>
      [] area = "Direito das Familias" ->
           <<Question("situacao_conjugal",
                      <<"Casado(a) - quer divorcio", "Uniao estavel - quer dissolucao",
                        "Separado(a) - questoes pendentes",
                        "Solteiro(a) - questao de guarda/pensao">>, FALSE, {}, 1),
             Question("filhos", <<"Sim, menores de idade", "Sim, maiores de idade", "Nao">>,
                      FALSE, {}, 2),
             Question("bens", <<"Sim, muitos bens", "Poucos bens", "Sem bens significativos">>,
                      FALSE, {}, 3),
             Question("urgencia",
                      <<"Violencia domestica", "Pensao alimenticia atrasada",
                        "Mudanca de cidade com crianca", "Nao ha urgencia">>, TRUE, {}, 2)>>
      [] area = "Acao Penal" ->
           <<Question("situacao_processo",
                      <<"Sou vitima", "Sou reu/investigado", "Sou testemunha",
                        "Familiar do envolvido">>, FALSE, {}, 1),
             Question("tipo_crime",
                      <<"Crimes contra pessoa", "Crimes patrimoniais", "Crimes de transito",
                        "Outros crimes">>, FALSE, {}, 2),
             Question("fase_processo",
                      <<"Inquerito policial", "Denuncia oferecida", "Instrucao",
                        "Aguardando sentenca", "Recurso">>, TRUE, {}, 3),
             Question("preso",
                      <<"Sim, prisao preventiva", "Sim, flagrante", "Liberdade provisoria",
                        "Solto">>, TRUE, {"Sim, prisao preventiva", "Sim, flagrante"}, 4)>>
      [] area = "Medida Protetiva" ->
           <<Question("situacao_violencia",
                      <<"Violencia fisica", "Violencia psicologica", "Ameacas",
                        "Violencia patrimonial", "Multiplas violencias">>, FALSE, {}, 2),
             Question("ja_registrou",
                      <<"Sim, recentemente", "Sim, ha tempo", "Nao, mas quero registrar", "Nao">>,
                      TRUE, {}, 1),
             Question("medida_existente",
                      <<"Sim, esta valendo", "Sim, mas foi descumprida", "Nao, mas preciso",
                        "Nao sei">>, FALSE, {"Sim, mas foi descumprida"}, 3),
             Question("risco_atual",
                      <<"Em risco iminente", "Preocupada mas segura", "Situacao controlada",
                        "Preciso sair de casa">>, TRUE,
                      {"Em risco iminente", "Preciso sair de casa"}, 4)>>
      [] OTHER -> <<>>
Questions == get_questions_for_area(QualifyArea)

\* any(keyword in answer.lower() for keyword in ["sim", "muito", "grande", "alto", "urgente"])
HasStrongKeyword(text) ==
    text \in {"sim", "Sim, menores de idade", "Sim, maiores de idade", "Sim, muitos bens",
              "Sim, prisao preventiva", "Sim, flagrante", "Sim, recentemente", "Sim, ha tempo",
              "Sim, esta valendo", "Sim, mas foi descumprida", "valor muito alto"}
\* any(keyword in answer.lower() for keyword in ["médio", "razoável", "algum"])
HasMediumKeyword(text) == text \in {"algum valor"}
\* calculate_lead_score: what one answer adds, per unit of weight
AnswerPoints(answer) ==
    IF ~AnswerGiven(answer) THEN 0
    ELSE IF ~answer.str THEN 2
    ELSE IF HasStrongKeyword(answer.v) THEN 3
    ELSE IF HasMediumKeyword(answer.v) THEN 2
    ELSE 1
\* calculate_lead_score: score after the questions from i on (answers.get(id) is
\* None for a missing answer)
RECURSIVE SumScore(_, _, _)
SumScore(questions, answers, i) ==
    IF i > Len(questions) THEN 0
    ELSE (IF questions[i].id \in DOMAIN answers
          THEN questions[i].weight * AnswerPoints(answers[questions[i].id]) ELSE 0)
         + SumScore(questions, answers, i + 1)
\* calculate_lead_score: max_score
RECURSIVE SumWeights(_, _)
SumWeights(questions, i) ==
    IF i > Len(questions) THEN 0 ELSE questions[i].weight * 3 + SumWeights(questions, i + 1)
\* int(x) of the non-negative quotient num / den
IntTrunc(num, den) == num \div den
\* calculate_lead_score without the clamp to 1..10
calculate_lead_score_unclamped(area, answers) ==
    IF area \notin MappedAreas THEN 5
    ELSE IntTrunc(SumScore(get_questions_for_area(area), answers, 1) * 10,
                  SumWeights(get_questions_for_area(area), 1))

\* lead_qualifier.calculate_lead_score: 5 for an unmapped area, otherwise
\* min(10, max(1, int((score / max_score) * 10)))
calculate_lead_score(area, answers) ==
    IF area \notin MappedAreas THEN 5
    ELSE LET questions == get_questions_for_area(area)
             v == IntTrunc(SumScore(questions, answers, 1) * 10, SumWeights(questions, 1))
         IN IF v > 10 THEN 10 ELSE IF v < 1 THEN 1 ELSE v

\* "prazo" in str(answers).lower(): in a key or in an answer's text
MentionsPrazo(answers) ==
    \/ "prazo" \in DOMAIN answers
    \/ \E k \in DOMAIN answers : answers[k].v \in {"prazo amanha"}
\* the answer check_urgency reads for question q: answers.get(question_id, "")
AnswerTo(answers, q) == Get(answers, q.id, Str(""))
\* check_urgency: question.get("urgency_check") and answer, for some question
UrgencyFlagged(questions, answers) ==
    \E i \in 1..Len(questions) :
        questions[i].urgency_check /\ AnswerGiven(AnswerTo(answers, questions[i]))

\* the high-priority test written as the `elif` of the urgency_check test
HighPriorityMatchElse(questions, answers) ==
    \E i \in 1..Len(questions) :
        /\ ~(questions[i].urgency_check /\ AnswerGiven(AnswerTo(answers, questions[i])))
        /\ AnswerTo(answers, questions[i]).str
        /\ AnswerTo(answers, questions[i]).v \in questions[i].high_priority

\* check_urgency: answer in question["high_priority"], for some question
HighPriorityMatch(questions, answers) ==
    \E i \in 1..Len(questions) :
        /\ AnswerTo(answers, questions[i]).str
        /\ AnswerTo(answers, questions[i]).v \in questions[i].high_priority

\* the recommended action with the "prazo" test placed first
RecommendedActionPrazoFirst(area, is_urgent, critical, answers) ==
    IF ~is_urgent THEN ""
    ELSE IF MentionsPrazo(answers) THEN "Agendamento urgente - prazo legal"
    ELSE IF area = "Medida Protetiva" THEN "Agendamento prioritario - situacao de risco"
    ELSE IF area = "Acao Penal" /\ critical THEN "Contato imediato - pessoa presa"
    ELSE "Acompanhamento prioritario"

\* check_urgency: recommended_action
RecommendedAction(area, is_urgent, critical, answers) ==
    IF ~is_urgent THEN ""
    ELSE IF area = "Medida Protetiva" THEN "Agendamento prioritario - situacao de risco"
    ELSE IF area = "Acao Penal" /\ critical THEN "Contato imediato - pessoa presa"
    ELSE IF MentionsPrazo(answers) THEN "Agendamento urgente - prazo legal"
    ELSE "Acompanhamento prioritario"

\* lead_qualifier.check_urgency (urgency_reasons left out)
check_urgency(area, answers) ==
    LET questions == IF area \in MappedAreas THEN get_questions_for_area(area) ELSE <<>>
        high == HighPriorityMatch(questions, answers)
        is_urgent == UrgencyFlagged(questions, answers) \/ high
    IN [is_urgent |-> is_urgent,
        urgency_level |-> IF high THEN "critical" ELSE "normal",
        recommended_action |-> RecommendedAction(area, is_urgent, high, answers)]

\* _complete_qualification: which of the five closing texts is sent
QualifiedReply(urgency, score) ==
    IF urgency.is_urgent
    THEN (IF urgency.urgency_level = "critical" THEN "qualified_critical" ELSE "qualified_urgent")
    ELSE IF score >= 8 THEN "qualified_high"
    ELSE IF score >= 5 THEN "qualified_medium"
    ELSE "qualified_low"

\* _complete_qualification letting a failed upsert_client escape
_complete_qualification_unguarded(w, number, area, answers, oc) ==
    IF oc.fail = "upsert_qualify" THEN Raise(w, "upsert_qualify")
    ELSE Result(Upsert(w, number, None, None, "qualification summary",
                       IF check_urgency(area, answers).is_urgent
                          \/ calculate_lead_score(area, answers) >= 8 THEN "ALTA"
                       ELSE IF calculate_lead_score(area, answers) >= 5 THEN "MEDIA" ELSE "BAIXA"),
                <<R(QualifiedReply(check_urgency(area, answers),
                                   calculate_lead_score(area, answers)),
                    calculate_lead_score(area, answers))>>,
                "SCHEDULE_AFTER_QUALIFY",
                [qualification_complete |-> TRUE, area |-> area,
                 score |-> calculate_lead_score(area, answers)])

\* _complete_qualification
_complete_qualification(w, number, area, answers, oc) ==
    LET score == calculate_lead_score(area, answers)
        urgency == check_urgency(area, answers)
        urgent == urgency.is_urgent
        priority == IF urgent \/ score >= 8 THEN "ALTA" ELSE IF score >= 5 THEN "MEDIA" ELSE "BAIXA"
        w1 == IF oc.fail = "upsert_qualify" THEN Caught(w, "upsert_qualify")
              ELSE IF oc.fail = "notify_qualify"
              THEN Caught(Upsert(w, number, None, None, "qualification summary", priority),
                          "notify_qualify")
              ELSE Upsert(w, number, None, None, "qualification summary", priority)
    IN Result(w1, <<R(QualifiedReply(urgency, score), score)>>,
              "SCHEDULE_AFTER_QUALIFY",
              [qualification_complete |-> TRUE, area |-> area, score |-> score])

\* a QUALIFY branch that takes a number outside the options as free text
_handle_qualification_lenient(w, number, message, decision, oc) ==
    IF w.cur = "FREE"
    THEN IF oc.n8n # "off" /\ HasClient(w, number)
         THEN \* client.get("name") on a sqlite3.Row: AttributeError
              Raise(w, "row_get")
         ELSE IF oc.n8n = "response"
         THEN Result(w, <<R("n8n_response", 0)>>, "FREE", w.loc)
         ELSE LET area == IF oc.area # "none" THEN oc.area
                          ELSE IF message = "sofri um acidente" THEN QualifyArea ELSE "none"
              IN IF area # QualifyArea THEN _handle_legal(w)
                 ELSE Result(w, <<R("first_question", Questions[1].nopts)>>, "QUALIFY",
                             Put(Put(Put(Put(w.loc, "qualification_area", area),
                                         "questions", Questions),
                                     "current_question", 0),
                                 "answers", EmptyDict))
    ELSE IF w.cur = "QUALIFY"
    THEN LET area == Get(w.loc, "qualification_area", None)
             questions == Get(w.loc, "questions", <<>>)
             idx == Get(w.loc, "current_question", 0)
             answers == Get(w.loc, "answers", EmptyDict)
         IN IF idx >= Len(questions)
            THEN _complete_qualification(w, number, area, answers, oc)
            ELSE LET q == questions[idx + 1]
                     n == IntOf(message)
                 IN IF FALSE
                    THEN Result(w, <<R("reprompt_option", q.nopts)>>, w.cur, w.loc)
                    ELSE LET answer == IF q.nopts > 0 /\ 1 <= n /\ n <= q.nopts
                                       THEN Str(q.options[n]) ELSE Str(message)
                             answers2 == Put(answers, q.id, answer)
                             data2 == Put(Put(w.loc, "current_question", idx + 1),
                                          "answers", answers2)
                         IN IF idx + 1 < Len(questions)
                            THEN Result(w, <<R("next_question", questions[idx + 2].nopts)>>,
                                        "QUALIFY", data2)
                            ELSE _complete_qualification(w, number, area, answers2, oc)
    ELSE _handle_chat(w, message, decision)

\* _handle_qualification
_handle_qualification(w, number, message, decision, oc) ==
    IF w.cur = "FREE"
    THEN IF oc.n8n # "off" /\ HasClient(w, number)
         THEN \* client.get("name") on a sqlite3.Row: AttributeError
              Raise(w, "row_get")
         ELSE IF oc.n8n = "response"
         THEN Result(w, <<R("n8n_response", 0)>>, "FREE", w.loc)
         ELSE LET area == IF oc.area # "none" THEN oc.area
                          ELSE IF message = "sofri um acidente" THEN QualifyArea ELSE "none"
              IN IF area # QualifyArea THEN _handle_legal(w)
                 ELSE Result(w, <<R("first_question", Questions[1].nopts)>>, "QUALIFY",
                             Put(Put(Put(Put(w.loc, "qualification_area", area),
                                         "questions", Questions),
                                     "current_question", 0),
                                 "answers", EmptyDict))
    ELSE IF w.cur = "QUALIFY"
    THEN LET area == Get(w.loc, "qualification_area", None)
             questions == Get(w.loc, "questions", <<>>)
             idx == Get(w.loc, "current_question", 0)
             answers == Get(w.loc, "answers", EmptyDict)
         IN IF idx >= Len(questions)
            THEN _complete_qualification(w, number, area, answers, oc)
            ELSE LET q == questions[idx + 1]
                     n == IntOf(message)
                 IN IF q.nopts > 0 /\ n # -1 /\ ~(1 <= n /\ n <= q.nopts)
                    THEN Result(w, <<R("reprompt_option", q.nopts)>>, w.cur, w.loc)
                    ELSE LET answer == IF q.nopts > 0 /\ n # -1 THEN Str(q.options[n]) ELSE Str(message)
                             answers2 == Put(answers, q.id, answer)
                             data2 == Put(Put(w.loc, "current_question", idx + 1),
                                          "answers", answers2)
                         IN IF idx + 1 < Len(questions)
                            THEN Result(w, <<R("next_question", questions[idx + 2].nopts)>>,
                                        "QUALIFY", data2)
                            ELSE _complete_qualification(w, number, area, answers2, oc)
    ELSE _handle_chat(w, message, decision)

\* _execute: the handler of the decision's intent
_execute(w, number, message, decision, oc) ==
    CASE decision.intent = "greeting" -> _handle_greeting(w)
      [] decision.intent = "schedule" -> _handle_schedule(w, number, message, decision, oc)
      [] decision.intent = "cancel" -> _handle_cancel(w, number, message, decision, oc)
      [] decision.intent = "legal" -> _handle_legal(w)
      [] decision.intent = "info" -> _handle_info(w)
      [] decision.intent = "areas" -> _handle_areas(w)
      [] decision.intent = "list_meetings" -> _handle_list(w, number, oc)
      [] decision.intent = "qualify" -> _handle_qualification(w, number, message, decision, oc)
      [] OTHER -> _handle_chat(w, message, decision)

\* whether process() asks _ai_decide for the decision in this state
ConsultsClassifier(cur) ==
    cur \notin {"SCHED_NAME", "SCHED_PERIOD", "SCHED_DATE", "SCHED_SLOT", "SCHED_TIME",
                "QUALIFY", "SCHEDULE_AFTER_QUALIFY"}

\* the decision process() hands to _execute
DecisionOf(cur, message, oc) ==
    IF cur \in {"SCHED_NAME", "SCHED_PERIOD", "SCHED_DATE", "SCHED_SLOT", "SCHED_TIME"}
    THEN Decision("schedule", "")
    ELSE IF cur = "QUALIFY" THEN Decision("qualify", "")
    ELSE IF cur = "SCHEDULE_AFTER_QUALIFY"
    THEN (IF IsAffirmative(message) THEN Decision("schedule", "") ELSE Decision("small_talk", ""))
    ELSE _ai_decide(message, oc)

\* AIConversationManager.process (message non-empty)
process(w, number, message, oc) ==
    IF oc.fail = "get_client" THEN Raise(w, "get_client")
    ELSE _execute(w, number, message, DecisionOf(w.cur, message, oc), oc)

\* --------------------------------------------------- inputs and outcomes
\* The texts tried in each conversation state (the free-text states keep what
\* they are sent, so they are given few), and the outcomes of the calls a turn
\* makes: the call that raises (if any), the free slots the calendar reports
\* and the classifier's verdict.
ChoiceInputs == {"1", "2", "3", "5", "voltar", "mais", "oi"}
Inputs(cur) ==
    CASE cur = "INIT" -> {"oi", "preciso de ajuda", "cancelar", "adiantar", "1",
                          "quanto custa uma consulta"}
      [] cur = "FREE_CHAT" -> {"menu", "cancelar", "2", "4", "oi", "quanto custa uma consulta"}
      [] cur = "MENU" -> {"cancelar", "1", "2", "3", "4", "oi", "quanto custa uma consulta"}
      [] cur = "SCHEDULING_PREF_PERIOD" -> {"manha", "voltar"}
      [] cur = "SCHEDULING_ASK_NAME" -> {"ab", "Maria Silva"}
      [] cur \in {"LEAD_Q_START", "ASK_NAME"} -> {"Maria Silva"}
      [] cur = "ASK_EMAIL" -> {"a@b.com", "not-an-email", ""}
      [] cur = "ASK_SUMMARY" -> {"quanto custa uma consulta"}
      [] cur = "ASK_URGENCY" -> {"sim"}
      [] cur = "CANCEL_LOOKUP" -> {"todas", "10/11/2026", "oi", "voltar", "menu"}
      [] OTHER -> ChoiceInputs

\* the calls a turn in state cur on this message can reach
FailSites(cur, m) ==
    {"none", "upsert_start"} \cup
    CASE cur = "INIT" /\ HasEarlierKeyword(m) -> {"get_future_by_number", "slots"}
      [] cur = "FREE_CHAT" /\ DigitIn(m, 4) # 0 -> {"upsert_nested", "get_future", "get_client"}
      [] cur = "MENU" /\ DigitIn(m, 4) \in {2, 4} -> {"get_future", "get_client"}
      [] cur = "SCHEDULING_ASK_NAME" -> {"upsert_name"}
      [] cur = "SCHEDULING_CHOOSE_DATE" /\ DigitIn(m, 5) # 0 -> {"slots"}
      [] cur \in {"LEAD_Q_START", "ASK_NAME"} -> {"upsert_lead"}
      [] cur = "ASK_EMAIL" -> {"upsert_email"}
      [] cur = "ASK_URGENCY" -> {"upsert_urgency", "slots"}
      [] cur = "SCHEDULING_SHOW_SLOTS" /\ DigitIn(m, 3) # 0 ->
             {"slots", "get_client", "create_event", "add_meeting", "update_event", "update_time"}
      [] cur = "SCHEDULING_SHOW_SLOTS" /\ DigitIn(m, 3) = 0 /\ m # "voltar" -> {"slots"}
      [] cur = "CANCEL_LOOKUP" -> {"get_future", "get_between"}
      [] cur = "CANCEL_CHOOSE" /\ DigitIn(m, 5) # 0 -> {"delete_event", "update_status"}
      [] OTHER -> {}

Outcomes(entry, m) ==
    [fail : FailSites(entry.state, m),
     fresh : IF \/ entry.state = "INIT" /\ HasEarlierKeyword(m)
                \/ entry.state = "SCHEDULING_CHOOSE_DATE" /\ DigitIn(m, 5) # 0
                \/ entry.state = "ASK_URGENCY"
                \/ /\ entry.state = "SCHEDULING_SHOW_SLOTS"
                   /\ m = "mais" \/ (m # "voltar" /\ Get(entry.data, "slots", <<>>) = <<>>)
             THEN SlotLists ELSE {<<>>},
     ai : IF entry.state \in {"INIT", "FREE_CHAT", "MENU"} /\ MsgLen(m) >= 8
             /\ detect_intent(m) \in {"GREET", "UNKNOWN", "LEAD"} /\ ~HasEarlierKeyword(m)
          THEN {"legal", "other"} ELSE {"other"}]

\* the texts tried in each state of the AI-led conversation
AIInputs(cur) ==
    CASE cur = "FREE" -> {"oi", "quero agendar", "cancelar", "sofri um acidente",
                          "quanto custa uma consulta"}
      [] cur = "SCHED_NAME" -> {"ab", "Maria Silva"}
      [] cur = "SCHED_PERIOD" -> {"manha", "oi"}
      [] cur = "SCHED_DATE" -> {"1", "3", "9", "oi"}
      [] cur = "SCHED_SLOT" -> {"1", "2", "3", "9", "oi"}
      [] cur = "QUALIFY" -> {"1", "9", "sim"}
      [] cur = "SCHEDULE_AFTER_QUALIFY" -> {"sim", "nao", "quero agendar"}
      [] cur = "CANCEL_SELECT" -> {"1", "2", "9", "sim"}
      [] cur = "CANCEL_CONFIRM" -> {"sim", "nao", "oi", "1"}
      [] OTHER -> {"oi"}

\* the calls a turn in state cur can reach once its decision's intent is known
AIFailSites(cur, intent) ==
    {"none", "get_client"} \cup
    CASE intent = "schedule" /\ cur = "SCHED_NAME" -> {"get_future", "upsert_name"}
      [] intent = "schedule" /\ cur = "SCHED_DATE" -> {"get_future", "slots"}
      [] intent = "schedule" /\ cur = "SCHED_SLOT" ->
             {"get_future", "create_event", "upsert_booking", "add_meeting"}
      [] intent = "schedule" /\ cur \notin {"SCHED_NAME", "SCHED_DATE", "SCHED_SLOT"} ->
             {"get_future"}
      [] intent = "cancel" /\ cur = "FREE" -> {"get_future"}
      [] intent = "cancel" /\ cur = "CANCEL_CONFIRM" -> {"delete_event", "update_status"}
      [] intent = "list_meetings" -> {"get_future"}
      [] intent = "qualify" /\ cur = "QUALIFY" -> {"upsert_qualify", "notify_qualify"}
      [] OTHER -> {}

\* the outcomes of the calls a turn makes: the classifier's answer (or its
\* failure), then what the chosen handler's calls can do
AIOutcomes(cur, m) ==
    UNION {
      [fail : AIFailSites(cur, DecisionOf(cur, m, [decision |-> d]).intent),
       fresh : IF cur = "SCHED_DATE" THEN SlotLists ELSE {<<>>},
       decision : {d},
       area : IF cur = "FREE" /\ DecisionOf(cur, m, [decision |-> d]).intent = "qualify"
              THEN {"none", QualifyArea} ELSE {"none"},
       n8n : IF cur = "FREE" /\ DecisionOf(cur, m, [decision |-> d]).intent = "qualify"
             THEN {"off", "failed", "response"} ELSE {"off"}]
      : d \in IF ConsultsClassifier(cur) THEN {"fallback"} \cup AIIntents ELSE {"fallback"} }

\* ------------------------------------------------ calendar_service.py alone
\* Instants are minutes counted from 00:00 of a Monday, in the configured
\* time zone; a slot or a busy interval is a pair <<start, end>>.
BUSINESS_START_HOUR == 9
BUSINESS_END_HOUR == 18
horizon_days == 14
\* dt.date(), as a day number
DateOf(dt) == dt \div 1440
\* dt.hour
HourOf(dt) == (dt % 1440) \div 60
\* _business_hours_for_day
_business_hours_for_day(day) ==
    <<DateOf(day) * 1440 + BUSINESS_START_HOUR * 60, DateOf(day) * 1440 + BUSINESS_END_HOUR * 60>>

\* Saturday counted as a business day
_is_business_day_sat(dt) == DateOf(dt) % 7 < 6

\* _is_business_day: dt.weekday() < 5
_is_business_day(dt) == DateOf(dt) % 7 < 5

\* the busy intervals the calendar holds: the minute-of-day pattern cal.even
\* on even day numbers and cal.odd on odd ones
_list_busy_intervals(cal, time_min) ==
    LET pattern == IF DateOf(time_min) % 2 = 0 THEN cal.even ELSE cal.odd
    IN [i \in 1..Len(pattern) |-> <<DateOf(time_min) * 1440 + pattern[i][1],
                                    DateOf(time_min) * 1440 + pattern[i][2]>>]

\* _generate_candidate_slots: the while loop
RECURSIVE CandidatesFrom(_, _, _)
CandidatesFrom(cursor, end, delta) ==
    IF cursor + delta <= end
    THEN <<<<cursor, cursor + delta>>>> \o CandidatesFrom(cursor + delta, end, delta)
    ELSE <<>>
\* _generate_candidate_slots
_generate_candidate_slots(day, duration_minutes) ==
    CandidatesFrom(_business_hours_for_day(day)[1], _business_hours_for_day(day)[2],
                   duration_minutes)

\* a filter that drops a candidate only when it starts inside a busy interval
_filter_free_slots_by_start(candidates, busy) ==
    SelectSeq(candidates, LAMBDA c :
        ~\E i \in 1..Len(busy) : c[1] >= busy[i][1] /\ c[1] < busy[i][2])

\* _filter_free_slots
_filter_free_slots(candidates, busy) ==
    SelectSeq(candidates, LAMBDA c :
        ~\E i \in 1..Len(busy) : ~(c[2] <= busy[i][1] \/ c[1] >= busy[i][2]))

\* the cutoff taken at now instead of now + 60 minutes
TodayCutoffAtNow(candidates, day, now) ==
    IF DateOf(day) = DateOf(now)
    THEN SelectSeq(candidates, LAMBDA c : c[1] >= now)
    ELSE candidates

\* if day.date() == now.date(): keep the candidates with s >= now + 60 minutes
TodayCutoff(candidates, day, now) ==
    IF DateOf(day) = DateOf(now)
    THEN SelectSeq(candidates, LAMBDA c : c[1] >= now + 60)
    ELSE candidates

\* preferred_period.lower().startswith("man") / ("tar"); "" stands for None
PeriodInputs == {"", "manha", "Tarde", "indiferente"}
LowerStartsWithMan(p) == p \in {"manha"}
LowerStartsWithTar(p) == p \in {"Tarde"}
\* the preferred-period filter
PeriodFilter(candidates, preferred_period) ==
    IF preferred_period = "" THEN candidates
    ELSE IF LowerStartsWithMan(preferred_period)
    THEN SelectSeq(candidates, LAMBDA c : 9 <= HourOf(c[1]) /\ HourOf(c[1]) < 12)
    ELSE IF LowerStartsWithTar(preferred_period)
    THEN SelectSeq(candidates, LAMBDA c : 13 <= HourOf(c[1]) /\ HourOf(c[1]) < 18)
    ELSE candidates

\* the free slots of one day: candidates, cutoff, period filter, busy filter
DaySlots(cal, now, day, duration_minutes, preferred_period) ==
    _filter_free_slots(
        PeriodFilter(TodayCutoff(_generate_candidate_slots(day, duration_minutes), day, now),
                     preferred_period),
        _list_busy_intervals(cal, _business_hours_for_day(day)[1]))

\* the day loop appending every free slot of a day, whatever count is
RECURSIVE SearchDaysUncounted(_, _, _, _, _, _, _, _)
SearchDaysUncounted(cal, now, day, left, found, count, duration_minutes, preferred_period) ==
    IF left = 0 THEN found
    ELSE IF ~_is_business_day(day)
    THEN SearchDaysUncounted(cal, now, day + 1440, left - 1, found, count, duration_minutes,
                             preferred_period)
    ELSE LET more == found \o DaySlots(cal, now, day, duration_minutes, preferred_period)
         IN IF Len(more) >= count THEN more
            ELSE SearchDaysUncounted(cal, now, day + 1440, left - 1, more, count,
                                     duration_minutes, preferred_period)

\* get_next_available_slots: the loop over the horizon, `left` iterations to go
RECURSIVE SearchDays(_, _, _, _, _, _, _, _)
SearchDays(cal, now, day, left, found, count, duration_minutes, preferred_period) ==
    IF left = 0 THEN found
    ELSE IF ~_is_business_day(day)
    THEN SearchDays(cal, now, day + 1440, left - 1, found, count, duration_minutes,
                    preferred_period)
    ELSE LET free_slots == DaySlots(cal, now, day, duration_minutes, preferred_period)
             more == found \o Take(free_slots, count - Len(found))
         IN IF Len(more) >= count THEN more
            ELSE SearchDays(cal, now, day + 1440, left - 1, more, count, duration_minutes,
                            preferred_period)

\* calendar_service.get_next_available_slots, computed from the clock and the
\* calendar's busy intervals
next_available_slots(cal, now, count, duration_minutes, preferred_period, start_offset_days) ==
    SearchDays(cal, now, now + start_offset_days * 1440, horizon_days, <<>>, count,
               duration_minutes, preferred_period)

\* calendar_service.get_available_slots_for_date, computed the same way
available_slots_for_date(cal, now, target_date, duration_minutes, preferred_period) ==
    DaySlots(cal, now, target_date, duration_minutes, preferred_period)

\* the inputs tried
MaxCount == 3
Durations == {60, 100}
\* Monday, Friday, Saturday, Tuesday of the next week; before opening, in the
\* morning, late afternoon, shortly before midnight
NowInstants == {d * 1440 + m : d \in {0, 4, 5, 8}, m \in {450, 570, 1000, 1410}}
\* busy patterns of a day, in minutes of the day
BusyPatterns ==
    {<<>>, <<<<570, 630>>>>, <<<<540, 1080>>>>, <<<<600, 720>>, <<780, 840>>>>,
     <<<<540, 600>>, <<660, 1080>>>>}
Calendars == [even : BusyPatterns, odd : BusyPatterns]

\* ------------------------------------------------------------------ state
VARIABLES
    state_by_user,   \* conversation_state.state_by_user (absent = default entry)
    clients,         \* table clientes, by whatsapp_number
    meetings,        \* table reunioes, in insertion order
    events,          \* ids of the events the calendar holds
    nEvents,         \* events created so far (the next id)
    ai_state,        \* the state dict kept for each user of AIConversationManager
    workers,         \* the request threads inside handle_incoming_message
    last,            \* the turn just handled: its inputs, what it did, what was sent
    today,           \* the clock: days elapsed since the service started
    clientes,        \* table clientes as its rows, for upsert_client taken alone
    upserts,         \* the upsert_client calls in progress, one per connection
    ADMIN_WHATSAPP,  \* app.ADMIN_WHATSAPP, read once from the environment
    _bot_paused_until, \* app._bot_paused_until
    _last_seen,      \* app._last_seen: sender -> time of its last message past the rate limit
    clock,           \* time.time(), in units of MIN_MSG_INTERVAL
    requests,        \* webhook requests between the rate limit's read and its write
    reached,         \* per sender, the receive times of the messages that overlapping
                     \* requests gave to the engine
    lock,            \* ConversationState.lock: 0 when free, else the thread holding it
    storeops,        \* the get/set/clear calls in progress, one per thread
    sched_now,       \* datetime.utcnow() at the reminder job's next run, in quarter hours
    queried,         \* per meeting id, the reminder runs whose query returned it
    counters,        \* MetricsCollector.counters
    response_times,  \* MetricsCollector.response_times: entries kept per metric
    metric_events,   \* MetricsCollector.events: entries kept per metric
    metrics_lock,    \* MetricsCollector.lock: 0 when free, else the holding thread
    metric_calls     \* the collector calls in progress, one per thread

vars == <<state_by_user, clients, meetings, events, nEvents, ai_state, workers, last, today,
          clientes, upserts, ADMIN_WHATSAPP, _bot_paused_until, _last_seen, clock, requests,
          reached, lock, storeops, sched_now, queried, counters, response_times,
          metric_events, metrics_lock, metric_calls>>
\* the connections calling upsert_client at the same time
Callers == {1, 2}
NoCall == [pc |-> "idle", number |-> "", args |-> <<>>, row |-> 0]
\* what a dialogue turn leaves alone: the clock, the webhook's gate, and the
\* calls studied on their own
storevars == <<lock, storeops>>
remvars == <<sched_now, queried>>
obsvars == <<counters, response_times, metric_events, metrics_lock, metric_calls>>
gatevars == <<ADMIN_WHATSAPP, _bot_paused_until, _last_seen, clock, requests, reached>>
appvars == <<today, clientes, upserts, gatevars, storevars, remvars, obsvars>>

DefaultEntry == [state |-> "INIT", data |-> EmptyDict]
FreeEntry == [state |-> "FREE", data |-> EmptyDict]
\* the request threads: Flask serves each webhook request on its own thread
Workers == {1, 2}
Live == [live |-> TRUE, val |-> EmptyDict]
Frozen(content) == [live |-> FALSE, val |-> content]
IdleWorker == [pc |-> "idle", number |-> "", msg |-> "", cur |-> "", dloc |-> Live, sd |-> Live]
NoTurn ==
    [engine |-> "none", number |-> "", msg |-> "", raised |-> FALSE, hit |-> "none",
     replies |-> <<>>, sends |-> <<>>, consulted |-> FALSE, intent |-> ""]

\* _bot_paused_until: None, float("inf"), or an instant
NotPaused == [kind |-> "none", until |-> 0]
Forever == [kind |-> "inf", until |-> 0]
Until(t) == [kind |-> "at", until |-> t]
\* time.time() when the service starts: later than one interval after the epoch
StartClock == 1
NoStoreOp == [pc |-> "idle", op |-> "", user |-> "", value |-> ""]
NoRequest == [pc |-> "idle", number |-> "", text |-> "", now_s |-> 0, last |-> 0]

\* the reminder job has not run; no meeting has been in a queried window
InitReminderClock ==
    /\ sched_now = 0
    /\ queried = EmptyDict
\* MetricsCollector.__init__: empty dicts, the lock free, no call in progress
MetricNames == {"webhook"}
NoMetricCall == [pc |-> "idle", op |-> "", metric |-> "", outer |-> "", todo |-> <<>>]
InitCollector ==
    /\ counters = [m \in MetricNames |-> 0]
    /\ response_times = [m \in MetricNames |-> 0]
    /\ metric_events = [m \in MetricNames |-> 0]
    /\ metrics_lock = 0
    /\ metric_calls = [t \in Workers |-> NoMetricCall]

Init ==
    /\ state_by_user = [n \in Numbers |-> DefaultEntry]
    /\ clients = EmptyDict
    /\ meetings = <<>>
    /\ events = {}
    /\ nEvents = 0
    /\ ai_state = [n \in Numbers |-> FreeEntry]
    /\ workers = [i \in Workers |-> IdleWorker]
    /\ last = NoTurn
    /\ today = 0
    /\ clientes = <<>>
    /\ upserts = [c \in Callers |-> NoCall]
    /\ ADMIN_WHATSAPP = ""
    /\ _bot_paused_until = NotPaused
    /\ _last_seen = EmptyDict
    /\ clock = StartClock
    /\ requests = [t \in Workers |-> NoRequest]
    /\ reached = EmptyDict
    /\ lock = 0
    /\ storeops = [t \in Workers |-> NoStoreOp]
    /\ InitReminderClock
    /\ InitCollector

\* the days the clock runs through
MaxDay == 2
\* datetime.utcnow() on a day: the service's start, or the day's first instant
NowOf(day) == IF day = 0 THEN UtcNow ELSE 2 * day - 1

\* the world of a turn handled on its own: every alias is the live entry
WorldOf(number) ==
    [NewWorld(state_by_user[number].state, state_by_user[number].data,
              state_by_user[number].state, state_by_user[number].data, TRUE,
              [live |-> TRUE, val |-> EmptyDict], clients, meetings, events, nEvents)
     EXCEPT !.now = NowOf(today)]

TurnRecord(engine, number, message, w, sends, consulted, intent) ==
    [engine |-> engine, number |-> number, msg |-> message, raised |-> w.raised,
     hit |-> w.hit, replies |-> IF w.raised THEN <<>> ELSE w.replies, sends |-> sends,
     consulted |-> consulted, intent |-> intent]

\* the body of evolution_webhook's loop from the call of the engine on: the
\* turn, then one send_whatsapp_message call per reply; a raising turn is
\* logged and reported, and the loop moves on to the next message
DialogueTurnUpTo(raw, message, oc, cap) ==
    LET number == normalize_number(raw)
        w == handle_incoming_message(WorldOf(number), number, message, oc)
        sends == IF w.raised THEN <<>> ELSE w.replies
    IN /\ w.nEvents <= cap
       /\ oc.fail \in {"none", w.hit}
       /\ state_by_user' = [state_by_user EXCEPT ![number] = [state |-> w.st, data |-> w.data]]
       /\ clients' = w.clients
       /\ meetings' = w.meetings
       /\ events' = w.events
       /\ nEvents' = w.nEvents
       /\ last' = TurnRecord("chatbot", number, message, w, sends, FALSE, "")
       /\ UNCHANGED <<ai_state, workers>>

DialogueTurn(raw, message, oc) == DialogueTurnUpTo(raw, message, oc, MaxEvents)

\* evolution_webhook for one message that passes the rate limit while the bot
\* is not paused
evolution_webhook(raw, message, oc) ==
    /\ DialogueTurn(raw, message, oc)
    /\ UNCHANGED appvars

Webhook ==
    \E raw \in ProviderNumbers :
      \E message \in Inputs(state_by_user[normalize_number(raw)].state) :
        \E oc \in Outcomes(state_by_user[normalize_number(raw)], message) :
          evolution_webhook(raw, message, oc)

Next == Webhook

Spec == Init /\ [][Next]_vars

\* one turn of the AI-led conversation: process() on the stored state dict,
\* its new_state stored and its replies sent
ai_turn(number, message, oc) ==
    LET entry == ai_state[number]
        w == process(NewWorld(entry.state, entry.data, entry.state, entry.data, TRUE,
                              [live |-> TRUE, val |-> EmptyDict],
                              clients, meetings, events, nEvents),
                     number, message, oc)
        decision == DecisionOf(entry.state, message, oc)
    IN /\ w.nEvents <= MaxEvents
       /\ oc.fail \in {"none", w.hit}
       /\ ai_state' = IF w.raised THEN ai_state
                      ELSE [ai_state EXCEPT ![number] = [state |-> w.st, data |-> w.data]]
       /\ clients' = w.clients
       /\ meetings' = w.meetings
       /\ events' = w.events
       /\ nEvents' = w.nEvents
       /\ last' = TurnRecord("ai", number, message, w, IF w.raised THEN <<>> ELSE w.replies,
                             ~w.raised /\ ConsultsClassifier(entry.state),
                             IF w.raised THEN "" ELSE decision.intent)
       /\ UNCHANGED <<state_by_user, workers, appvars>>

AITurn ==
    \E number \in Numbers :
      \E message \in AIInputs(ai_state[number].state) :
        \E oc \in AIOutcomes(ai_state[number].state, message) :
          ai_turn(number, message, oc)

NextAI == AITurn

SpecAI == Init /\ [][NextAI]_vars

\* ---------------------------------------------- two request threads, one user
\* the texts and outcomes tried when turns overlap
ConcInputs(cur) ==
    CASE cur = "INIT" -> {"preciso de ajuda"}
      [] cur = "SCHEDULING_SHOW_SLOTS" -> {"1", "voltar"}
      [] cur \in {"LEAD_Q_START", "ASK_NAME", "ASK_EMAIL", "ASK_SUMMARY", "ASK_URGENCY"} ->
             Inputs(cur)
      [] cur = "MENU" -> {"1"}
      [] OTHER -> {"oi"}
ConcOutcomes == [fail : {"none"}, fresh : {<<SlotOf(1), SlotOf(2)>>}, ai : {"other"}]

\* handle_incoming_message up to `data = state.get("data", {})`: the entry is
\* read under the store's lock, which is released on return from get()
WorkerGet(i, raw, message) ==
    LET number == normalize_number(raw) IN
    /\ workers[i].pc = "idle"
    /\ workers' = [workers EXCEPT ![i] =
           [pc |-> "got", number |-> number, msg |-> message,
            cur |-> state_by_user[number].state, dloc |-> Live, sd |-> Live]]
    /\ UNCHANGED <<state_by_user, clients, meetings, events, nEvents, ai_state, last, appvars>>

\* the rest of the turn, from upsert_client on, and the sends of its replies
WorkerRun(i, oc) ==
    LET wk == workers[i]
        entry == state_by_user[wk.number]
        w == handle_incoming_message(
                 NewWorld(entry.state, entry.data, wk.cur,
                          IF wk.dloc.live THEN entry.data ELSE wk.dloc.val, wk.dloc.live,
                          wk.sd, clients, meetings, events, nEvents),
                 wk.number, wk.msg, oc)
        \* what the other thread's aliases refer to after this turn
        after(o) ==
            IF o.pc = "got" /\ o.number = wk.number
            THEN [o EXCEPT
                    !.dloc = IF o.dloc.live /\ w.replaced THEN Frozen(w.oldc)
                             ELSE IF o.dloc.live /\ w.cleared THEN Frozen(w.clearc)
                             ELSE o.dloc,
                    !.sd = IF o.sd.live /\ w.cleared THEN Frozen(w.clearc) ELSE o.sd]
            ELSE o
    IN /\ wk.pc = "got"
       /\ w.nEvents <= MaxConcEvents
       /\ state_by_user' = [state_by_user EXCEPT ![wk.number] = [state |-> w.st, data |-> w.data]]
       /\ clients' = w.clients
       /\ meetings' = w.meetings
       /\ events' = w.events
       /\ nEvents' = w.nEvents
       /\ workers' = [j \in Workers |-> IF j = i THEN IdleWorker ELSE after(workers[j])]
       /\ last' = TurnRecord("chatbot", wk.number, wk.msg, w,
                             IF w.raised THEN <<>> ELSE w.replies, FALSE, "")
       /\ UNCHANGED <<ai_state, appvars>>

ThreadGet ==
    \E i \in Workers, raw \in RawNumbers :
      \E message \in ConcInputs(state_by_user[normalize_number(raw)].state) :
        WorkerGet(i, raw, message)

ThreadRun == \E i \in Workers, oc \in ConcOutcomes : WorkerRun(i, oc)

NextConc == ThreadGet \/ ThreadRun

SpecConc == Init /\ [][NextConc]_vars

\* --------------------------------------------- one engine per deployment
\* The application wires one dialogue engine; the first turn tells which.
NextEither ==
    \/ last.engine # "ai" /\ Webhook
    \/ last.engine # "chatbot" /\ AITurn

SpecEither == Init /\ [][NextEither]_vars

\* ------------------------------------------------ two users, turn by turn
\* Two users take the lead flow to the slot list, pick, cancel and start
\* again, one turn at a time; the calendar offers both the same slot.
PairSenders == {"55119", "55228"}
MaxPairEvents == 2
PairInputs(cur) ==
    CASE cur = "INIT" -> {"preciso de ajuda", "cancelar"}
      [] cur \in {"LEAD_Q_START", "ASK_NAME"} -> {"Maria Silva"}
      [] cur = "ASK_EMAIL" -> {"a@b.com"}
      [] cur = "ASK_SUMMARY" -> {"quanto custa uma consulta"}
      [] cur = "ASK_URGENCY" -> {"sim"}
      [] cur = "SCHEDULING_SHOW_SLOTS" -> {"1"}
      [] cur = "FREE_CHAT" -> {"cancelar"}
      [] cur = "CANCEL_LOOKUP" -> {"todas"}
      [] cur = "CANCEL_CHOOSE" -> {"1"}
      [] OTHER -> {"oi"}
PairOutcomes == [fail : {"none", "add_meeting", "delete_event"}, fresh : {<<SlotOf(1)>>},
                 ai : {"other"}]

PairTurn ==
    \E raw \in PairSenders :
      \E message \in PairInputs(state_by_user[normalize_number(raw)].state) :
        \E oc \in PairOutcomes :
          /\ DialogueTurnUpTo(raw, message, oc, MaxPairEvents)
          /\ UNCHANGED appvars

InitPair ==
    /\ state_by_user = [n \in {normalize_number(r) : r \in PairSenders} |-> DefaultEntry]
    /\ clients = EmptyDict
    /\ meetings = <<>>
    /\ events = {}
    /\ nEvents = 0
    /\ ai_state = [n \in Numbers |-> FreeEntry]
    /\ workers = [i \in Workers |-> IdleWorker]
    /\ last = NoTurn
    /\ today = 0
    /\ clientes = <<>>
    /\ upserts = [c \in Callers |-> NoCall]
    /\ ADMIN_WHATSAPP = ""
    /\ _bot_paused_until = NotPaused
    /\ _last_seen = EmptyDict
    /\ clock = StartClock
    /\ requests = [t \in Workers |-> NoRequest]
    /\ reached = EmptyDict
    /\ lock = 0
    /\ storeops = [t \in Workers |-> NoStoreOp]
    /\ InitReminderClock
    /\ InitCollector

NextPair == PairTurn

SpecPair == InitPair /\ [][NextPair]_vars

\* ---------------------------------- dialogue turns and the scheduler's jobs
\* database.get_yesterday_meetings_to_followup: yesterday's MARCADA rows
get_yesterday_meetings_to_followup(cl, ms, day) ==
    LET ids == {i \in 1..Len(ms) :
                   /\ ms[i].status = "MARCADA"
                   /\ DayOf(FromUtcIso(ms[i].meeting_datetime)) = day - 1}
        order == SortedIds(ms, ids)
    IN [k \in 1..Len(order) |-> JoinedRow(cl, ms[order[k]])]

\* the follow-up loop over rows that answer .get(): each row whose message is
\* sent is set to FOLLOW-UP_ENVIADO
RECURSIVE _send_followups_over_dicts(_, _, _)
_send_followups_over_dicts(ms, rows, sent) ==
    IF rows = <<>> THEN ms
    ELSE _send_followups_over_dicts(
             IF Head(rows).id \in sent
             THEN update_meeting_status(ms, Head(rows).id, "FOLLOW-UP_ENVIADO") ELSE ms,
             Tail(rows), sent)

\* scheduler._send_followups: the rows are sqlite3.Row objects, which have no
\* .get(); m.get("full_name") raises AttributeError on the first row, outside
\* the try, and the job ends before anything is sent or updated
_send_followups(ms, rows, sent) == ms

\* the clock moves on by a day
DayPasses ==
    /\ today < MaxDay
    /\ today' = today + 1
    /\ UNCHANGED <<state_by_user, clients, meetings, events, nEvents, ai_state, workers, last,
                   clientes, upserts, gatevars, storevars, remvars, obsvars>>

\* a dialogue turn at the present time: the slots a search returns lie ahead
TurnToday ==
    \E raw \in ProviderNumbers :
      \E message \in Inputs(state_by_user[normalize_number(raw)].state) :
        \E oc \in Outcomes(state_by_user[normalize_number(raw)], message) :
          /\ \A i \in 1..Len(oc.fresh) : oc.fresh[i][1] > NowOf(today)
          /\ evolution_webhook(raw, message, oc)

\* the daily follow-up job; sent is the set of rows whose message goes out
FollowUpsJob ==
    LET rows == get_yesterday_meetings_to_followup(clients, meetings, today) IN
    \E sent \in SUBSET {rows[k].id : k \in 1..Len(rows)} :
        /\ meetings' = _send_followups(meetings, rows, sent)
        /\ last' = [engine |-> "followups", number |-> "", msg |-> "", raised |-> rows # <<>>,
                    hit |-> "none", replies |-> <<>>, sends |-> <<>>, consulted |-> FALSE,
                    intent |-> ""]
        /\ UNCHANGED <<state_by_user, clients, events, nEvents, ai_state, workers, appvars>>

\* scheduler._send_meeting_reminders: reads the meetings 24 hours ahead and
\* fails the same way on the first row; it writes nothing
RemindersJob ==
    LET rows == {i \in 1..Len(meetings) :
                    /\ meetings[i].status = "MARCADA"
                    /\ FromUtcIso(meetings[i].meeting_datetime) = NowOf(today) + 2}
    IN /\ last' = [engine |-> "reminders", number |-> "", msg |-> "", raised |-> rows # {},
                   hit |-> "none", replies |-> <<>>, sends |-> <<>>, consulted |-> FALSE,
                   intent |-> ""]
       /\ UNCHANGED <<state_by_user, clients, meetings, events, nEvents, ai_state, workers,
                      appvars>>

NextJobs == TurnToday \/ DayPasses \/ FollowUpsJob \/ RemindersJob

SpecJobs == Init /\ [][NextJobs]_vars

\* ------------------------------------------- app.py: admin, rate limit, pause
\* Time is counted in units of MIN_MSG_INTERVAL (0.5 s by default): messages
\* less than one interval apart arrive at the same instant of this clock.
_MIN_INTERVAL_SECONDS == 1
\* minutes * 60 seconds, in the same unit
MinuteTicks == 120
\* the clock runs up to here, and up to here while requests overlap
MaxClock == 241
MaxConcClock == 2
\* the senders the provider reports: a user's number, and a JID without digits
GateSenders == {"55 (11) 9", "status"}
\* ADMIN_WHATSAPP: unset, the number of the first sender, or a text without digits
AdminConfigs == {"", "55119", "admin"}
\* the texts each sender sends
GateTexts(number) ==
    IF number = "status" THEN {"oi", "#pause"} ELSE {"oi", "#pause", "#pause 1", "#resume"}
\* the sender and the text of the requests that overlap
ConcSenders == {"55 (11) 9"}
ConcTexts == {"oi"}
\* _normalize_digits: the digits of the value, or None when there are none
_normalize_digits(value) ==
    IF normalize_number(value) = "" THEN None ELSE normalize_number(value)
\* line 268: ADMIN_WHATSAPP and _normalize_digits(number) == _normalize_digits(ADMIN_WHATSAPP)
IsAdmin(admin, number) == admin # "" /\ _normalize_digits(number) = _normalize_digits(admin)
\* cmd.startswith("#pause") or cmd.startswith("#pausa")
StartsWithPause(text) == text \in {"#pause", "#pause 1"}
\* cmd.startswith("#resume") or "#retomar" or "#despausar"
StartsWithResume(text) == text = "#resume"
StartsWithStatus(text) == text = "#status"
\* int(parts[1]) when there is a second word that parses, else None (here <<>>)
PauseMinutes(text) ==
    IF text = "#pause 1" THEN <<1>> ELSE <<>>
_pause_bot(minutes, now) ==
    IF minutes = <<>> \/ minutes[1] <= 0 THEN Forever ELSE Until(now + minutes[1] * MinuteTicks)
_resume_bot == NotPaused
\* a pause check that never finds the bot paused
_is_bot_never_paused(until, now) == FALSE
_is_bot_paused_now(until, now) ==
    IF until.kind = "none" THEN FALSE
    ELSE IF until.kind = "inf" THEN TRUE ELSE now < until.until
\* which admin command the message is for this sender, if any
AdminCommand(admin, number, text) ==
    IF ~IsAdmin(admin, number) THEN "none"
    ELSE IF StartsWithPause(text) THEN "pause"
    ELSE IF StartsWithResume(text) THEN "resume"
    ELSE IF StartsWithStatus(text) THEN "status"
    ELSE "none"

GateRecord(engine, number, text, sends, reason) ==
    [engine |-> engine, number |-> number, msg |-> text, raised |-> FALSE, hit |-> "none",
     replies |-> <<>>, sends |-> sends, consulted |-> FALSE, intent |-> "", reason |-> reason]

\* time.time() moves on
Tick(steps, max) ==
    \E d \in steps :
        /\ clock + d <= max
        /\ clock' = clock + d
        /\ UNCHANGED <<state_by_user, clients, meetings, events, nEvents, ai_state, workers, last,
                       today, clientes, upserts, storevars, remvars, obsvars, ADMIN_WHATSAPP, _bot_paused_until, _last_seen,
                       requests, reached>>

ClockTick == Tick({MinuteTicks}, MaxClock)
ConcClockTick == Tick({_MIN_INTERVAL_SECONDS}, MaxConcClock)

\* lines 268-307: an admin command is carried out, acknowledged, and the loop
\* continues with the next message
AdminMessage ==
    \E number \in GateSenders : \E text \in GateTexts(number) :
        LET cmd == AdminCommand(ADMIN_WHATSAPP, number, text) IN
        /\ cmd # "none"
        /\ _bot_paused_until' =
               CASE cmd = "pause" -> _pause_bot(PauseMinutes(text), clock)
                 [] cmd = "resume" -> _resume_bot
                 [] OTHER -> _bot_paused_until
        /\ last' = GateRecord("admin", number, text,
                              <<IF cmd = "status"
                                THEN IF _is_bot_paused_now(_bot_paused_until, clock)
                                     THEN "status_paused" ELSE "status_active"
                                ELSE cmd>>, cmd)
        /\ UNCHANGED <<state_by_user, clients, meetings, events, nEvents, ai_state, workers,
                       today, clientes, upserts, storevars, remvars, obsvars, ADMIN_WHATSAPP, _last_seen, clock, requests,
                       reached>>

\* lines 311-315: the message comes too soon after the sender's last one
RateDrop(number, text) ==
    /\ last' = GateRecord("dropped", number, text, <<>>, "rate")
    /\ UNCHANGED <<state_by_user, clients, meetings, events, nEvents, ai_state, workers,
                   today, clientes, upserts, storevars, remvars, obsvars, ADMIN_WHATSAPP, _bot_paused_until, _last_seen,
                   clock>>

\* lines 316-345: _last_seen is written, then the pause check, then the engine
\* and the replies
RatePass(number, text, now_s) ==
    /\ _last_seen' = Put(_last_seen, number, now_s)
    /\ IF _is_bot_paused_now(_bot_paused_until, clock)
       THEN /\ last' = GateRecord("dropped", number, text, <<>>, "paused")
            /\ UNCHANGED <<state_by_user, clients, meetings, events, nEvents, ai_state,
                           workers>>
       ELSE \E oc \in Outcomes(state_by_user[normalize_number(number)], text) :
                   DialogueTurn(number, text, oc)
    /\ UNCHANGED <<today, clientes, upserts, storevars, remvars, obsvars, ADMIN_WHATSAPP, _bot_paused_until, clock>>

\* requests handled one at a time: the rest of the loop body for one message
RateLimited ==
    \E number \in GateSenders : \E text \in GateTexts(number) :
        /\ AdminCommand(ADMIN_WHATSAPP, number, text) = "none"
        /\ clock - Get(_last_seen, number, 0) < _MIN_INTERVAL_SECONDS
        /\ RateDrop(number, text)
        /\ UNCHANGED <<requests, reached>>

Admitted ==
    \E number \in GateSenders : \E text \in GateTexts(number) :
        /\ AdminCommand(ADMIN_WHATSAPP, number, text) = "none"
        /\ ~(clock - Get(_last_seen, number, 0) < _MIN_INTERVAL_SECONDS)
        /\ RatePass(number, text, clock)
        /\ UNCHANGED <<requests, reached>>

\* the service with any of the admin settings
InitGate ==
    /\ state_by_user = [n \in {normalize_number(r) : r \in GateSenders} |-> DefaultEntry]
    /\ clients = EmptyDict
    /\ meetings = <<>>
    /\ events = {}
    /\ nEvents = 0
    /\ ai_state = [n \in Numbers |-> FreeEntry]
    /\ workers = [i \in Workers |-> IdleWorker]
    /\ last = NoTurn
    /\ today = 0
    /\ clientes = <<>>
    /\ upserts = [c \in Callers |-> NoCall]
    /\ ADMIN_WHATSAPP \in AdminConfigs
    /\ _bot_paused_until = NotPaused
    /\ _last_seen = EmptyDict
    /\ clock = StartClock
    /\ requests = [t \in Workers |-> NoRequest]
    /\ reached = EmptyDict
    /\ lock = 0
    /\ storeops = [t \in Workers |-> NoStoreOp]
    /\ InitReminderClock
    /\ InitCollector

NextGate == ClockTick \/ AdminMessage \/ RateLimited \/ Admitted

SpecGate == InitGate /\ [][NextGate]_vars

\* requests handled by threads of the server: between time.time() with
\* _last_seen.get (lines 310-311) and the comparison with the write (312-315)
\* another request may run
RequestRead(t) ==
    \E number \in ConcSenders, text \in ConcTexts :
        /\ requests[t].pc = "idle"
        /\ AdminCommand(ADMIN_WHATSAPP, number, text) = "none"
        /\ requests' = [requests EXCEPT ![t] = [pc |-> "read", number |-> number, text |-> text,
                                                now_s |-> clock,
                                                last |-> Get(_last_seen, number, 0)]]
        /\ UNCHANGED <<state_by_user, clients, meetings, events, nEvents, ai_state, workers, last,
                       today, clientes, upserts, storevars, remvars, obsvars, ADMIN_WHATSAPP, _bot_paused_until, _last_seen,
                       clock, reached>>

RequestDrop(t) ==
    /\ requests[t].pc = "read"
    /\ requests[t].now_s - requests[t].last < _MIN_INTERVAL_SECONDS
    /\ RateDrop(requests[t].number, requests[t].text)
    /\ requests' = [requests EXCEPT ![t] = NoRequest]
    /\ UNCHANGED reached

RequestPass(t) ==
    /\ requests[t].pc = "read"
    /\ ~(requests[t].now_s - requests[t].last < _MIN_INTERVAL_SECONDS)
    /\ RatePass(requests[t].number, requests[t].text, requests[t].now_s)
    /\ requests' = [requests EXCEPT ![t] = NoRequest]
    /\ reached' = IF last'.engine = "chatbot"
                  THEN Put(reached, requests[t].number,
                           Get(reached, requests[t].number, {}) \cup {requests[t].now_s})
                  ELSE reached

NextGateConc ==
    \/ ConcClockTick
    \/ \E t \in Workers : RequestRead(t)
    \/ \E t \in Workers : RequestDrop(t)
    \/ \E t \in Workers : RequestPass(t)

SpecGateConc == Init /\ [][NextGateConc]_vars

\* --------------------------------------------- ConversationState's lock
\* get, set and clear each run inside `with self.lock`: a call arrives at the
\* with statement, acquires the lock when it is free, then runs its body and
\* releases it.
StoreUsers == {"55119", "55228"}
StoreOps == {"get", "set", "clear"}
StoreValues == {"MENU", "FREE_CHAT"}
\* `with self.lock`: the one Lock made in __init__ must be free
LockFree(holder, user) == holder = 0

\* the body of each method
StoreBody(store, op, user, value) ==
    LET entry == Get(store, user, DefaultEntry) IN
    CASE op = "get" -> Put(store, user, entry)
      [] op = "set" -> Put(store, user, [entry EXCEPT !.state = value])
      [] op = "clear" -> [k \in DOMAIN store \ {user} |-> store[k]]

StoreCall(t) ==
    \E op \in StoreOps, user \in StoreUsers, value \in StoreValues :
        /\ storeops[t].pc = "idle"
        /\ storeops' = [storeops EXCEPT ![t] = [pc |-> "waiting", op |-> op, user |-> user,
                                                value |-> IF op = "set" THEN value ELSE ""]]
        /\ UNCHANGED <<state_by_user, clients, meetings, events, nEvents, ai_state, workers, last,
                       today, clientes, upserts, gatevars, lock, remvars, obsvars>>

StoreAcquire(t) ==
    /\ storeops[t].pc = "waiting"
    /\ LockFree(lock, storeops[t].user)
    /\ lock' = t
    /\ storeops' = [storeops EXCEPT ![t].pc = "holding"]
    /\ UNCHANGED <<state_by_user, clients, meetings, events, nEvents, ai_state, workers, last,
                   today, clientes, upserts, gatevars, remvars, obsvars>>

StoreRun(t) ==
    /\ storeops[t].pc = "holding"
    /\ state_by_user' = StoreBody(state_by_user, storeops[t].op, storeops[t].user,
                                  storeops[t].value)
    /\ lock' = 0
    /\ storeops' = [storeops EXCEPT ![t] = NoStoreOp]
    /\ UNCHANGED <<clients, meetings, events, nEvents, ai_state, workers, last,
                   today, clientes, upserts, gatevars, remvars, obsvars>>

\* the store as ConversationState.__init__ leaves it
InitStore ==
    /\ state_by_user = EmptyDict
    /\ clients = EmptyDict
    /\ meetings = <<>>
    /\ events = {}
    /\ nEvents = 0
    /\ ai_state = [n \in Numbers |-> FreeEntry]
    /\ workers = [i \in Workers |-> IdleWorker]
    /\ last = NoTurn
    /\ today = 0
    /\ clientes = <<>>
    /\ upserts = [c \in Callers |-> NoCall]
    /\ ADMIN_WHATSAPP = ""
    /\ _bot_paused_until = NotPaused
    /\ _last_seen = EmptyDict
    /\ clock = StartClock
    /\ requests = [t \in Workers |-> NoRequest]
    /\ reached = EmptyDict
    /\ lock = 0
    /\ storeops = [t \in Workers |-> NoStoreOp]
    /\ InitReminderClock
    /\ InitCollector

NextStore ==
    \/ \E t \in Workers : StoreCall(t)
    \/ \E t \in Workers : StoreAcquire(t)
    \/ \E t \in Workers : StoreRun(t)

SpecStore == InitStore /\ [][NextStore]_vars

\* ------------------------------------------- the 24-hour reminder job alone
\* Time is in quarter hours since the service started.  The job is an
\* interval job: it runs, then runs again ReminderInterval later.
ReminderInterval == 2
WindowStart == 96
WindowEnd == 100
\* the first run falls on the hour or a quarter past it
ReminderPhases == {0, 1}
MaxSchedNow == 12
\* meetings start on the hour, 25 to 26 hours after the service started
ReminderStarts == {100, 104, 108}
ReminderStartLists ==
    {<<a>> : a \in ReminderStarts} \cup {<<a, b>> : a \in ReminderStarts, b \in ReminderStarts}

\* database.get_meetings_between: meeting_datetime BETWEEN start AND end, both
\* ends included, status MARCADA, ordered by meeting_datetime
get_meetings_between_instants(cl, ms, start_dt, end_dt) ==
    LET ids == {i \in 1..Len(ms) :
                   /\ ms[i].status = "MARCADA"
                   /\ FromUtcIso(ms[i].meeting_datetime) >= start_dt
                   /\ FromUtcIso(ms[i].meeting_datetime) <= end_dt}
        order == SortedIds(ms, ids)
    IN [k \in 1..Len(order) |-> JoinedRow(cl, ms[order[k]])]

\* one client with one or two MARCADA meetings a day ahead
InitReminders ==
    \E starts \in ReminderStartLists, phase \in ReminderPhases :
        /\ state_by_user = EmptyDict
        /\ clients = upsert_client(EmptyDict, "55119", None, None, None, None)
        /\ meetings = IF Len(starts) = 1
                      THEN add_meeting(<<>>, 1, 1, starts[1], "MARCADA")
                      ELSE add_meeting(add_meeting(<<>>, 1, 1, starts[1], "MARCADA"),
                                       1, 2, starts[2], "MARCADA")
        /\ events = 1..Len(starts)
        /\ nEvents = Len(starts)
        /\ ai_state = [n \in Numbers |-> FreeEntry]
        /\ workers = [i \in Workers |-> IdleWorker]
        /\ last = NoTurn
        /\ today = 0
        /\ clientes = <<>>
        /\ upserts = [c \in Callers |-> NoCall]
        /\ ADMIN_WHATSAPP = ""
        /\ _bot_paused_until = NotPaused
        /\ _last_seen = EmptyDict
        /\ clock = StartClock
        /\ requests = [t \in Workers |-> NoRequest]
        /\ reached = EmptyDict
        /\ lock = 0
        /\ storeops = [t \in Workers |-> NoStoreOp]
        /\ sched_now = phase
        /\ queried = [i \in 1..Len(starts) |-> 0]
        /\ InitCollector

\* scheduler._send_meeting_reminders at one run of the interval job: the query
\* for [now + 24h, now + 25h]; on the first row m.get raises, so nothing is
\* sent and nothing is written; the next run is ReminderInterval later
RemindersRun ==
    LET rows == get_meetings_between_instants(clients, meetings, sched_now + WindowStart,
                                              sched_now + WindowEnd)
        ids == {rows[k].id : k \in 1..Len(rows)}
    IN /\ sched_now + ReminderInterval <= MaxSchedNow
       /\ queried' = [i \in DOMAIN queried |-> IF i \in ids THEN queried[i] + 1 ELSE queried[i]]
       /\ sched_now' = sched_now + ReminderInterval
       /\ last' = [engine |-> "reminders", number |-> "", msg |-> "", raised |-> rows # <<>>,
                   hit |-> "none", replies |-> <<>>, sends |-> <<>>, consulted |-> FALSE,
                   intent |-> ""]
       /\ UNCHANGED <<state_by_user, clients, meetings, events, nEvents, ai_state, workers,
                      today, clientes, upserts, gatevars, storevars, obsvars>>

NextReminders == RemindersRun

SpecReminders == InitReminders /\ [][NextReminders]_vars

\* ------------------------------------------------ MetricsCollector alone
\* Threads call the collector's methods; each method is `with self.lock:`
\* around its body.  threading.Lock is not reentrant: acquire waits until the
\* lock is free, whoever holds it.
max_history == 1
MaxCounter == 1
MetricList == <<"webhook">>
MetricOps == {"increment", "record_time", "record_event", "get_rate_per_minute",
              "get_avg_response_time", "get_metrics_summary"}

\* deque(maxlen=max_history).append: the number of entries kept
Appended(n) == IF n < max_history THEN n + 1 ELSE max_history

\* the calls get_metrics_summary makes inside its own `with self.lock:`: one
\* get_rate_per_minute per key of events, then one get_avg_response_time per
\* key of response_times
SummaryCalls(evs, times) ==
    LET rate(m) == <<"get_rate_per_minute", m>>
        avg(m) == <<"get_avg_response_time", m>>
        Keys(d, f(_)) == [k \in 1..Len(SelectSeq(MetricList, LAMBDA m : d[m] > 0)) |->
                              f(SelectSeq(MetricList, LAMBDA m : d[m] > 0)[k])]
    IN Keys(evs, rate) \o Keys(times, avg)

\* a thread enters a method and reaches its `with self.lock:`
MetricsCall(t) ==
    \E op \in MetricOps, metric \in MetricNames :
        /\ metric_calls[t].pc = "idle"
        /\ op = "increment" =>
              counters[metric] + Cardinality({u \in Workers :
                                                 /\ metric_calls[u].op = "increment"
                                                 /\ metric_calls[u].metric = metric})
                  < MaxCounter
        /\ metric_calls' = [metric_calls EXCEPT ![t] =
                               [pc |-> "waiting", op |-> op,
                                metric |-> IF op = "get_metrics_summary" THEN "" ELSE metric,
                                outer |-> "", todo |-> <<>>]]
        /\ UNCHANGED <<state_by_user, clients, meetings, events, nEvents, ai_state, workers,
                       last, today, clientes, upserts, gatevars, storevars, remvars,
                       counters, response_times, metric_events, metrics_lock>>

\* self.lock.acquire() returns once the lock is free
MetricsAcquire(t) ==
    /\ metric_calls[t].pc = "waiting"
    /\ metrics_lock = 0
    /\ metrics_lock' = t
    /\ metric_calls' = [metric_calls EXCEPT ![t].pc = "holding"]
    /\ UNCHANGED <<state_by_user, clients, meetings, events, nEvents, ai_state, workers,
                   last, today, clientes, upserts, gatevars, storevars, remvars,
                   counters, response_times, metric_events>>

\* the body of the method up to the point where it returns or makes a call
\* that locks again.  A method called from get_metrics_summary returns into
\* it: the next call of the summary follows, or the summary returns.
MetricsRun(t) ==
    LET c == metric_calls[t]
        calls == IF c.op = "get_metrics_summary"
                 THEN SummaryCalls(metric_events, response_times) ELSE c.todo
    IN /\ c.pc = "holding"
       /\ counters' = IF c.op = "increment"
                      THEN [counters EXCEPT ![c.metric] = @ + 1] ELSE counters
       /\ response_times' = IF c.op = "record_time"
                            THEN [response_times EXCEPT ![c.metric] = Appended(@)]
                            ELSE response_times
       /\ metric_events' = IF c.op = "record_event"
                           THEN [metric_events EXCEPT ![c.metric] = Appended(@)]
                           ELSE metric_events
       /\ IF (c.op = "get_metrics_summary" \/ c.outer = "get_metrics_summary") /\ calls # <<>>
          THEN /\ metric_calls' = [metric_calls EXCEPT ![t] =
                                      [pc |-> "waiting", op |-> calls[1][1],
                                       metric |-> calls[1][2],
                                       outer |-> "get_metrics_summary", todo |-> Tail(calls)]]
               /\ metrics_lock' = IF c.op = "get_metrics_summary" THEN t ELSE 0
          ELSE /\ metric_calls' = [metric_calls EXCEPT ![t] = NoMetricCall]
               /\ metrics_lock' = 0
       /\ UNCHANGED <<state_by_user, clients, meetings, events, nEvents, ai_state, workers,
                      last, today, clientes, upserts, gatevars, storevars, remvars>>

NextMetrics ==
    \/ \E t \in Workers : MetricsCall(t)
    \/ \E t \in Workers : MetricsAcquire(t)
    \/ \E t \in Workers : MetricsRun(t)

SpecMetrics == Init /\ [][NextMetrics]_vars

\* every thread runs on, and a thread waiting for a lock that is free again
\* and again gets it
SpecMetricsLive ==
    SpecMetrics /\ \A t \in Workers : SF_vars(MetricsAcquire(t)) /\ WF_vars(MetricsRun(t))

\* ------------------------------------------- database.upsert_client alone
\* The table is its list of rows; a call is the SELECT, then the INSERT or the
\* UPDATE, each a statement of its own on the caller's connection, so calls
\* on different connections interleave between the two.
UpsertNumbers == {"55119", "55228"}
MaxRows == 3
NoFields == [full_name |-> None, email |-> None, case_summary |-> None, lead_priority |-> None]
\* the arguments tried: nothing, a name, another name, an email, summary and priority
UpsertArgs ==
    {NoFields, [NoFields EXCEPT !.full_name = "Ana"], [NoFields EXCEPT !.full_name = "Bia"],
     [NoFields EXCEPT !.email = "a@b.com"],
     [NoFields EXCEPT !.case_summary = "caso", !.lead_priority = "ALTA"]}
ClientFields == {"full_name", "email", "case_summary", "lead_priority"}

\* SELECT id FROM clientes WHERE whatsapp_number = ?  (0 when fetchone() is None)
SelectClientId(rows, number) ==
    IF \E i \in 1..Len(rows) : rows[i].whatsapp_number = number
    THEN rows[CHOOSE i \in 1..Len(rows) : rows[i].whatsapp_number = number].id
    ELSE 0

\* an INSERT on a table whose whatsapp_number column is not UNIQUE
InsertClientNotUnique(rows, number, args) ==
    [raised |-> FALSE,
     rows |-> Append(rows, [id |-> Len(rows) + 1, whatsapp_number |-> number,
                            full_name |-> args.full_name, email |-> args.email,
                            case_summary |-> args.case_summary,
                            lead_priority |-> args.lead_priority])]

\* INSERT INTO clientes ...: whatsapp_number is UNIQUE, so a second row for a
\* number raises IntegrityError and the connection rolls back
InsertClient(rows, number, args) ==
    IF \E i \in 1..Len(rows) : rows[i].whatsapp_number = number
    THEN [raised |-> TRUE, rows |-> rows]
    ELSE [raised |-> FALSE,
          rows |-> Append(rows, [id |-> Len(rows) + 1, whatsapp_number |-> number,
                                 full_name |-> args.full_name, email |-> args.email,
                                 case_summary |-> args.case_summary,
                                 lead_priority |-> args.lead_priority])]

\* UPDATE clientes SET <the columns given non-None> WHERE id = ?
UpdateClient(rows, client_id, args) ==
    [i \in 1..Len(rows) |->
        IF rows[i].id # client_id THEN rows[i]
        ELSE [rows[i] EXCEPT
                !.full_name = IF args.full_name # None THEN args.full_name ELSE @,
                !.email = IF args.email # None THEN args.email ELSE @,
                !.case_summary = IF args.case_summary # None THEN args.case_summary ELSE @,
                !.lead_priority = IF args.lead_priority # None THEN args.lead_priority ELSE @]]

\* upsert_client up to fetchone()
UpsertSelect(c, number, args) ==
    /\ upserts[c].pc = "idle"
    /\ upserts' = [upserts EXCEPT ![c] = [pc |-> "selected", number |-> number, args |-> args,
                                          row |-> SelectClientId(clientes, number)]]
    /\ UNCHANGED <<state_by_user, clients, meetings, events, nEvents, ai_state, workers, last,
                   today, clientes, gatevars, storevars, remvars, obsvars>>

\* upsert_client from `if row is None` to its return (or its exception)
UpsertWrite(c) ==
    LET call == upserts[c]
        ins == InsertClient(clientes, call.number, call.args)
    IN /\ call.pc = "selected"
       /\ Len(clientes) < MaxRows
       /\ clientes' = IF call.row = 0 THEN ins.rows
                      ELSE UpdateClient(clientes, call.row, call.args)
       /\ upserts' = [upserts EXCEPT ![c] = NoCall]
       /\ last' = [engine |-> "upsert", number |-> call.number, msg |-> "",
                   raised |-> call.row = 0 /\ ins.raised, hit |-> "none", replies |-> <<>>,
                   sends |-> <<>>, consulted |-> FALSE, intent |-> "",
                   args |-> call.args, row |-> call.row]
       /\ UNCHANGED <<state_by_user, clients, meetings, events, nEvents, ai_state, workers, today,
                      gatevars, storevars, remvars, obsvars>>

NextUpsert ==
    \/ \E c \in Callers, number \in UpsertNumbers, args \in UpsertArgs : UpsertSelect(c, number, args)
    \/ \E c \in Callers : UpsertWrite(c)

SpecUpsert == Init /\ [][NextUpsert]_vars

\* ------------------------------------------------- ai_service.extract_intent
\* the texts classified; each predicate is the source's substring test on them
IntentTexts ==
    {"oi", "quero agendar", "cancelar", "fui demitido do trabalho", "quero o divorcio",
     "preciso de ajuda", "adiantar", "qual o endereco", "xyz", "assunto de familia"}
\* any(k in t for k in ["duvida", ..., "ajuda", "caso", ..., "consulta", ...])
HeuristicDoubt(t) == t \in {"preciso de ajuda"}
\* any(k in t for k in ["cancelar", "desmarcar"])
HeuristicCancel(t) == t \in {"cancelar"}
\* any(k in t for k in ["remarcar", "adiantar", "antecipar"])
HeuristicReschedule(t) == t \in {"adiantar"}
\* any(k in t for k in ["agendar", "consulta"])
HeuristicSchedule(t) == t \in {"quero agendar"}
\* any(k in t for k in ["horário", "endere", "funciona"])
HeuristicInfo(t) == t \in {"qual o endereco"}
\* any(k in t for k in ["trabalho", "demiss", "rescis"])
HeuristicLabour(t) == t \in {"fui demitido do trabalho"}
\* any(k in t for k in ["família", "familia", "guarda", ..., "divorcio"])
HeuristicFamily(t) == t \in {"quero o divorcio", "assunto de familia"}
\* any(k in t for k in ["oi", "ola", "olá", "bom dia", ...])
HeuristicGreeting(t) == t \in {"oi"}
\* the final fallback's any(k in t for k in ["ajuda", "preciso", "duvida", ...])
HeuristicHelp(t) == t \in {"preciso de ajuda"}

ALLOWED_INTENTS ==
    {"saudacao", "duvida_juridica", "agendar", "cancelar", "remarcar", "ver_agendamentos",
     "areas", "informacoes", "desconhecido"}
ALLOWED_AREAS ==
    {"Responsabilidade Civil", "Acao Penal", "Medida Protetiva", "Direito das Familias",
     "Recursos", "FIES", "Flagrantes", "Inquerito policial"}
\* _load_allowed_areas: the keys of faq.json's areas_atuacao when the file
\* lists any (faq = {} for a missing, unreadable or empty file)
_load_allowed_areas(faq) == IF faq # {} THEN faq ELSE ALLOWED_AREAS
\* area_in_allowed
area_in_allowed(area, faq) == area \notin {None, ""} /\ area \in _load_allowed_areas(faq)

\* a result without an "area" key; callers read .get("area"), None here
NoArea(intent) == [intent |-> intent, area |-> None]

\* extract_intent with no model (missing key or library)
HeuristicUnconfigured(t) ==
    IF HeuristicDoubt(t) THEN NoArea("duvida_juridica")
    ELSE IF HeuristicCancel(t) THEN NoArea("cancelar")
    ELSE IF HeuristicReschedule(t) THEN NoArea("remarcar")
    ELSE IF HeuristicSchedule(t) THEN NoArea("agendar")
    ELSE IF HeuristicInfo(t) THEN NoArea("informacoes")
    ELSE IF HeuristicLabour(t)
    THEN [intent |-> "duvida_juridica", area |-> "Direito do Trabalho"]
    ELSE IF HeuristicFamily(t)
    THEN [intent |-> "duvida_juridica", area |-> "Direito de Familia"]
    ELSE IF HeuristicGreeting(t) THEN NoArea("saudacao")
    ELSE NoArea("desconhecido")

\* extract_intent's except branch (generation or parsing failed)
HeuristicOnError(t) ==
    IF HeuristicHelp(t) THEN NoArea("duvida_juridica") ELSE NoArea("desconhecido")

\* what the model answers: no usable JSON object (an exception), or an object
\* with an intent and an area (None when the key is missing)
ModelReplies ==
    {[parsed |-> FALSE, intent |-> None, area |-> None]} \cup
    [parsed : {TRUE}, intent : {"agendar", "duvida_juridica", "comprar"},
     area : {None, "", "FIES", "Direito do Trabalho", "Direito Espacial"}]
\* the contents of faq.json's areas_atuacao
FaqFiles == {{}, {"Direito do Trabalho", "Direito das Familias"}}

\* ai_service.extract_intent; client is "unconfigured" or "ok"
extract_intent(user_text, client, reply, faq) ==
    IF client = "unconfigured" THEN HeuristicUnconfigured(user_text)
    ELSE IF ~reply.parsed THEN HeuristicOnError(user_text)
    ELSE [intent |-> IF reply.intent \in ALLOWED_INTENTS THEN reply.intent ELSE "desconhecido",
          area |-> IF area_in_allowed(reply.area, faq) THEN reply.area ELSE None]

\* one call of extract_intent
Classify(user_text, client, reply, faq) ==
    /\ last.engine = "none"
    /\ last' = [engine |-> "classifier", text |-> user_text, client |-> client,
                reply |-> reply, faq |-> faq,
                result |-> extract_intent(user_text, client, reply, faq)]
    /\ UNCHANGED <<state_by_user, clients, meetings, events, nEvents, ai_state, workers, appvars>>

ClassifyAny ==
    \E user_text \in IntentTexts, client \in {"unconfigured", "ok"}, reply \in ModelReplies,
       faq \in FaqFiles :
        /\ client = "unconfigured" => reply = [parsed |-> FALSE, intent |-> None, area |-> None]
        /\ Classify(user_text, client, reply, faq)

NextIntent == ClassifyAny

SpecIntent == Init /\ [][NextIntent]_vars

\* ------------------------------------------------- the slot finder alone
\* one call of get_next_available_slots
SearchNext(cal, now, count, duration, period, offset) ==
    /\ last.engine = "none"
    /\ last' = [engine |-> "calendar", fn |-> "get_next_available_slots", cal |-> cal,
                now |-> now, day |-> now + offset * 1440, count |-> count,
                duration |-> duration, period |-> period,
                result |-> next_available_slots(cal, now, count, duration, period, offset)]
    /\ UNCHANGED <<state_by_user, clients, meetings, events, nEvents, ai_state, workers, appvars>>

\* one call of get_available_slots_for_date (target_date is a midnight)
SearchDate(cal, now, target_date, duration, period) ==
    /\ last.engine = "none"
    /\ last' = [engine |-> "calendar", fn |-> "get_available_slots_for_date", cal |-> cal,
                now |-> now, day |-> target_date, count |-> 0,
                duration |-> duration, period |-> period,
                result |-> available_slots_for_date(cal, now, target_date, duration, period)]
    /\ UNCHANGED <<state_by_user, clients, meetings, events, nEvents, ai_state, workers, appvars>>

SearchNextAny ==
    \E cal \in Calendars, now \in NowInstants, count \in 1..MaxCount, duration \in Durations,
       period \in PeriodInputs, offset \in {0, 2} :
        SearchNext(cal, now, count, duration, period, offset)

SearchDateAny ==
    \E cal \in Calendars, now \in NowInstants, ahead \in 0..2, duration \in Durations,
       period \in PeriodInputs :
        SearchDate(cal, now, (DateOf(now) + ahead) * 1440, duration, period)

NextCalendar == SearchNextAny \/ SearchDateAny

SpecCalendar == Init /\ [][NextCalendar]_vars

\* ------------------------------------------------ the lead qualifier alone
\* the answer values tried: empty, strong and medium keyword, plain, a
\* non-string, and the area's high-priority option texts
AnswerValues(area) ==
    {Str(""), Str("sim"), Str("algum valor"), Str("outro"), NonStr("7")}
    \cup {Str(o) : o \in UNION {get_questions_for_area(area)[i].high_priority :
                                   i \in 1..Len(get_questions_for_area(area))}}
\* the keys of an answers mapping: the area's question ids; for an area with
\* no flow, two arbitrary keys
AnswerKeys(area) ==
    IF area \in MappedAreas
    THEN {get_questions_for_area(area)[i].id : i \in 1..Len(get_questions_for_area(area))}
    ELSE {"prazo", "observacao"}
\* every answers mapping over those keys (a key may be missing)
AnswerMaps(area) ==
    UNION {[ks -> AnswerValues(area) \cup {Str("prazo amanha")}] : ks \in SUBSET AnswerKeys(area)}

\* one call of calculate_lead_score and check_urgency on (area, answers)
Qualify(area, answers) ==
    /\ last.engine = "none"
    /\ last' = [engine |-> "qualifier", area |-> area, answers |-> answers,
                score |-> calculate_lead_score(area, answers),
                urgency |-> check_urgency(area, answers)]
    /\ UNCHANGED <<state_by_user, clients, meetings, events, nEvents, ai_state, workers, appvars>>

QualifyAny == \E area \in MappedAreas \cup {UnmappedArea} : \E answers \in AnswerMaps(area) :
                  Qualify(area, answers)

NextScore == QualifyAny

SpecScore == Init /\ [][NextScore]_vars

C2_FailureKeepsSelection ==
    [][\A n \in Numbers :
         LET chatbot == last'.engine = "chatbot"
             pre == IF chatbot THEN state_by_user[n] ELSE ai_state[n]
             post == IF chatbot THEN state_by_user'[n] ELSE ai_state'[n]
         IN (/\ last'.engine \in {"chatbot", "ai"}
             /\ last'.number = n
             /\ pre.state = (IF chatbot THEN "SCHEDULING_SHOW_SLOTS" ELSE "SCHED_SLOT")
             /\ last'.hit = "create_event")
            => /\ meetings' = meetings
               /\ post.state \notin {"FREE", "FREE_CHAT"}]_vars

\* C2 amended: when create_event raises in a slot-selection turn, no meeting row
\* and no event is stored, the reply is the booking error and never a
\* confirmation, and the conversation is left unchanged by Chatbot and reset to
\* FREE with empty data by AIConversationManager.
C2_FailureBooksNothing ==
    [][\A n \in Numbers :
         LET chatbot == last'.engine = "chatbot"
             pre == IF chatbot THEN state_by_user[n] ELSE ai_state[n]
             post == IF chatbot THEN state_by_user'[n] ELSE ai_state'[n]
         IN (/\ last'.engine \in {"chatbot", "ai"}
             /\ last'.number = n
             /\ pre.state = (IF chatbot THEN "SCHEDULING_SHOW_SLOTS" ELSE "SCHED_SLOT")
             /\ last'.hit = "create_event")
            => /\ meetings' = meetings
               /\ events' = events
               /\ nEvents' = nEvents
               /\ last'.replies # <<>>
               /\ \A k \in 1..Len(last'.replies) : last'.replies[k].kind = "booking_error"
               /\ post = (IF chatbot THEN pre ELSE FreeEntry)]_vars

\* an AI turn whose create_event call raised has just been handled
C2_CalendarFailed ==
    /\ last.engine = "ai"
    /\ last.hit = "create_event"
    /\ ai_state[last.number] = FreeEntry

\* C3: a request thread that runs its turn acts on the state tag it read, that
\* is, no other turn of the same user changed the entry since the read.
C3_TurnActsOnCurrentState ==
    [][\A i \in Workers :
         (workers[i].pc = "got" /\ workers'[i].pc = "idle")
         => workers[i].cur = state_by_user[workers[i].number].state]_vars

\* the messages of the numbered-choice states this claim is about: no digit
\* of the state's range, or a digit beyond the listed items
C4_InvalidChoice(pre, msg) ==
    \/ /\ pre.state = "SCHEDULING_CHOOSE_DATE"
       /\ \/ DigitIn(msg, 5) = 0
          \/ DigitIn(msg, 5) > Len(Get(pre.data, "dates", <<>>))
    \/ /\ pre.state = "SCHEDULING_SHOW_SLOTS"
       /\ Get(pre.data, "slots", <<>>) # <<>>
       /\ \/ DigitIn(msg, 3) = 0
          \/ DigitIn(msg, 3) > Len(Get(pre.data, "slots", <<>>))
    \/ /\ pre.state = "CANCEL_CHOOSE"
       /\ \/ DigitIn(msg, 5) = 0
          \/ DigitIn(msg, 5) > Len(Get(pre.data, "cancel_rows", <<>>))

\* what such a turn must do: entry, calendar and meeting rows as before, and a
\* re-prompt when the handler returns
C4_Reprompted ==
    /\ state_by_user' = state_by_user
    /\ meetings' = meetings
    /\ events' = events
    /\ nEvents' = nEvents
    /\ ~last'.raised =>
         /\ last'.replies # <<>>
         /\ \A k \in 1..Len(last'.replies) :
              last'.replies[k].kind \in
                  {"reprompt_date", "invalid_date", "invalid_slot", "not_understood_slot",
                   "reprompt_cancel", "invalid_cancel"}

C5_OutOfListKeepsState ==
    [][\A n \in Numbers :
         LET pre == ai_state[n]
             dates == Get(pre.data, "dates", <<>>)
             slots == Get(pre.data, "slots", <<>>)
             questions == Get(pre.data, "questions", <<>>)
             idx == Get(pre.data, "current_question", 0)
         IN (/\ last'.engine = "ai"
             /\ last'.number = n
             /\ ~last'.raised
             /\ \/ pre.state = "SCHED_DATE" /\ dates # <<>> /\ DigitIn(last'.msg, 5) > Len(dates)
                \/ pre.state = "SCHED_SLOT" /\ slots # <<>> /\ DigitIn(last'.msg, 3) > Len(slots)
                \/ /\ pre.state = "QUALIFY"
                   /\ idx < Len(questions)
                   /\ questions[idx + 1].nopts > 0
                   /\ IntOf(last'.msg) > questions[idx + 1].nopts)
            => /\ ai_state'[n] = pre
               /\ last'.replies # <<>>
               /\ \A k \in 1..Len(last'.replies) :
                      last'.replies[k].kind \in
                          {"reprompt_date", "reprompt_slot", "reprompt_option"}]_vars

\* C6: a Chatbot turn that raises out of handle_incoming_message leaves the
\* user's conversation entry (state tag and data) as it was.
C6_RaiseLeavesEntry ==
    [][(last'.engine = "chatbot" /\ last'.raised) => state_by_user' = state_by_user]_vars

\* C7: a message whose turn raised is still answered: at least one reply is sent.
C7_RaisedTurnIsAnswered ==
    (last.engine = "chatbot" /\ last.raised) => last.sends # <<>>

\* C8: process() asks the classifier for the decision only when the incoming
\* state is FREE.
C8_ClassifierOnlyWhenFree ==
    [][\A n \in Numbers :
         (last'.engine = "ai" /\ last'.number = n /\ last'.consulted)
         => ai_state[n].state = "FREE"]_vars

\* C9: from SCHEDULE_AFTER_QUALIFY an affirmative reply leads into scheduling
\* (SCHED_NAME or SCHED_PERIOD) and any other reply leads to FREE.
C9_AfterQualifyBranches ==
    [][\A n \in Numbers :
         (/\ last'.engine = "ai"
          /\ last'.number = n
          /\ ~last'.raised
          /\ ai_state[n].state = "SCHEDULE_AFTER_QUALIFY")
         => IF IsAffirmative(last'.msg)
            THEN ai_state'[n].state \in {"SCHED_NAME", "SCHED_PERIOD"}
            ELSE ai_state'[n].state = "FREE"]_vars

\* C10: a meeting's event is deleted or its row set to CANCELADA only by a turn
\* that answers a confirmation prompt affirmatively; the turn that selects the
\* meeting never cancels it.
C10_CancelOnlyOnConfirmation ==
    [][\A n \in Numbers :
         (/\ last'.number = n
          /\ \/ events \ events' # {}
             \/ \E i \in 1..Len(meetings) :
                    /\ meetings[i].status = "MARCADA"
                    /\ meetings'[i].status = "CANCELADA")
         => /\ HasSim(last'.msg)
            /\ \/ last'.engine = "ai" /\ ai_state[n].state = "CANCEL_CONFIRM"
               \/ last'.engine = "chatbot" /\ state_by_user[n].state = "CANCEL_CONFIRM"]_vars

\* C11: a cancellation turn in which delete_event or update_meeting_status
\* fails never answers with the success confirmation, answers with something,
\* and leaves the conversation unchanged or idle; and whenever a turn answers
\* that the consultation was cancelled, the chosen meeting's row is CANCELADA.
C11_CancelFailureNeverConfirms ==
    [][\A n \in Numbers :
         LET chatbot == last'.engine = "chatbot"
             pre == IF chatbot THEN state_by_user[n] ELSE ai_state[n]
             post == IF chatbot THEN state_by_user'[n] ELSE ai_state'[n]
             rows == Get(pre.data, "cancel_rows", <<>>)
             chosen == IF chatbot THEN rows[DigitIn(last'.msg, 5)].id
                       ELSE pre.data["cancel_id"]
             confirmed == \E k \in 1..Len(last'.replies) :
                              last'.replies[k].kind = "cancelled_ok"
         IN (/\ last'.engine \in {"chatbot", "ai"}
             /\ last'.number = n
             /\ pre.state = (IF chatbot THEN "CANCEL_CHOOSE" ELSE "CANCEL_CONFIRM"))
            => /\ last'.hit \in {"delete_event", "update_status"}
                  => /\ ~confirmed
                     /\ last'.replies # <<>>
                     /\ \/ post = pre
                        \/ post = [state |-> (IF chatbot THEN "INIT" ELSE "FREE"),
                                   data |-> EmptyDict]
               /\ confirmed
                  => \E i \in 1..Len(meetings') :
                         meetings'[i].id = chosen /\ meetings'[i].status = "CANCELADA"]_vars

\* C12: an AI turn that answers the last question of a QUALIFY flow returns
\* new state SCHEDULE_AFTER_QUALIFY carrying the area and the computed score,
\* replies with the text chosen by urgency and score, and stores the case summary
\* and the lead priority on the client; when the notification or upsert_client
\* fails, the transition and the reply are the same (and a failed upsert stores
\* nothing).
C12_QualificationCompletes ==
    [][\A n \in Numbers :
         LET pre == ai_state[n]
             area == Get(pre.data, "qualification_area", None)
             questions == Get(pre.data, "questions", <<>>)
             idx == Get(pre.data, "current_question", 0)
             q == questions[idx + 1]
             k == IntOf(last'.msg)
             answer == IF q.nopts > 0 /\ k # -1 THEN Str(q.options[k]) ELSE Str(last'.msg)
             answers == Put(Get(pre.data, "answers", EmptyDict), q.id, answer)
             score == calculate_lead_score(area, answers)
             urgency == check_urgency(area, answers)
             priority == IF urgency.is_urgent \/ score >= 8 THEN "ALTA"
                         ELSE IF score >= 5 THEN "MEDIA" ELSE "BAIXA"
         IN (/\ last'.engine = "ai"
             /\ last'.number = n
             /\ pre.state = "QUALIFY"
             /\ idx + 1 = Len(questions)
             /\ ~(q.nopts > 0 /\ k # -1 /\ ~(1 <= k /\ k <= q.nopts))
             /\ last'.hit # "get_client")
            => /\ ~last'.raised
               /\ ai_state'[n] = [state |-> "SCHEDULE_AFTER_QUALIFY",
                                  data |-> [qualification_complete |-> TRUE,
                                            area |-> area, score |-> score]]
               /\ last'.replies = <<R(QualifiedReply(urgency, score), score)>>
               /\ score >= 1 /\ score <= 10
               /\ IF last'.hit = "upsert_qualify" THEN clients' = clients
                  ELSE /\ n \in DOMAIN clients'
                       /\ clients'[n].case_summary = "qualification summary"
                       /\ clients'[n].lead_priority = priority]_vars

\* a qualification was completed although storing it failed
C12_CompletedDespiteFailure ==
    /\ last.engine = "ai"
    /\ last.hit = "upsert_qualify"
    /\ ai_state[last.number].state = "SCHEDULE_AFTER_QUALIFY"

\* C17: calculate_lead_score returns an integer between 1 and 10 for every
\* area and every answers mapping: empty mappings, non-string answers and
\* areas without a flow included.
C17_ScoreInRange ==
    last.engine = "qualifier" => last.score \in 1..10
\* a mapped area with no answer at all: the ratio is 0 and the clamp gives 1
C17_EmptyAnswersScoreOne ==
    /\ last.engine = "qualifier"
    /\ last.area \in MappedAreas
    /\ DOMAIN last.answers = {}
    /\ last.score = 1

\* the integers nearest to num/den (both neighbours on a tie)
C18_Nearest(num, den) ==
    IF 2 * (num % den) = den THEN {num \div den, (num \div den) + 1}
    ELSE {(2 * num + den) \div (2 * den)}
\* C18: for a mapped area the score is round(clamp(sum/maxScore*10, 1, 10)),
\* the scaled ratio rounded to the nearest integer, with weight*3 for a strong
\* answer, weight*2 for a medium or non-string one, weight*1 for any other
\* non-empty one and nothing for a missing one; an unmapped area scores 5.
C18_ScoreIsRoundedRatio ==
    last.engine = "qualifier" =>
        IF last.area \notin MappedAreas THEN last.score = 5
        ELSE LET questions == get_questions_for_area(last.area)
                 sum == SumScore(questions, last.answers, 1)
                 mx == SumWeights(questions, 1)
             IN IF sum * 10 < mx THEN last.score = 1
                ELSE IF sum * 10 > 10 * mx THEN last.score = 10
                ELSE last.score \in C18_Nearest(sum * 10, mx)

\* C19: an answer equal to one of its question's high_priority answers makes
\* urgency_level critical and is_urgent true, whatever the other answers are.
C19_HighPriorityIsCritical ==
    (/\ last.engine = "qualifier"
     /\ \E i \in 1..Len(get_questions_for_area(last.area)) :
            LET q == get_questions_for_area(last.area)[i]
            IN q.id \in DOMAIN last.answers
               /\ last.answers[q.id].str
               /\ last.answers[q.id].v \in q.high_priority)
    => (last.urgency.urgency_level = "critical" /\ last.urgency.is_urgent)
\* a high-priority answer to a question that carries no urgency flag, next to
\* an ordinary answer to another question
C19_CriticalWithoutFlag ==
    /\ last.engine = "qualifier"
    /\ last.area = "Medida Protetiva"
    /\ DOMAIN last.answers = {"medida_existente", "situacao_violencia"}
    /\ last.answers["medida_existente"] = Str("Sim, mas foi descumprida")
    /\ last.answers["situacao_violencia"] = Str("outro")
    /\ last.urgency.urgency_level = "critical"

\* C20: in Medida Protetiva, risco_atual = "Em risco iminente" gives is_urgent,
\* level critical and the priority-scheduling action; and in that area the
\* action is priority scheduling whenever is_urgent and empty whenever not.
C20_ProtectiveMeasurePriority ==
    (last.engine = "qualifier" /\ last.area = "Medida Protetiva") =>
        /\ ("risco_atual" \in DOMAIN last.answers
            /\ last.answers["risco_atual"] = Str("Em risco iminente"))
           => /\ last.urgency.is_urgent
              /\ last.urgency.urgency_level = "critical"
              /\ last.urgency.recommended_action = "Agendamento prioritario - situacao de risco"
        /\ last.urgency.is_urgent
           => last.urgency.recommended_action = "Agendamento prioritario - situacao de risco"
        /\ ~last.urgency.is_urgent => last.urgency.recommended_action = ""
\* imminent risk reported while another answer mentions a deadline
C20_ImminentRisk ==
    /\ last.engine = "qualifier"
    /\ last.area = "Medida Protetiva"
    /\ "risco_atual" \in DOMAIN last.answers
    /\ last.answers["risco_atual"] = Str("Em risco iminente")
    /\ \E k \in DOMAIN last.answers : last.answers[k] = Str("prazo amanha")
    /\ last.urgency.recommended_action = "Agendamento prioritario - situacao de risco"

\* C13: no slot returned by get_next_available_slots or
\* get_available_slots_for_date overlaps a busy interval of its day: for every
\* returned slot and busy interval, NOT(slot.start < busy.end AND
\* slot.end > busy.start).
C13_NoSlotOverlapsBusy ==
    last.engine = "calendar" =>
        \A i \in 1..Len(last.result) :
            LET slot == last.result[i]
                busy == _list_busy_intervals(last.cal, slot[1])
            IN \A j \in 1..Len(busy) : ~(slot[1] < busy[j][2] /\ slot[2] > busy[j][1])
\* the first slot returned starts inside business hours right after a busy
\* interval that began before the previous candidate ended
C13_SlotAfterStraddlingBusy ==
    /\ last.engine = "calendar"
    /\ last.duration = 60
    /\ last.result # <<>>
    /\ LET slot == last.result[1]
           busy == _list_busy_intervals(last.cal, slot[1])
       IN /\ slot[1] = DateOf(slot[1]) * 1440 + 660
          /\ \E j \in 1..Len(busy) : busy[j][1] % 1440 = 570 /\ busy[j][2] % 1440 = 630

\* C14: whenever the day searched is today, no slot returned by
\* get_next_available_slots or get_available_slots_for_date starts before
\* now + 60 minutes.
C14_TodayCutoff ==
    last.engine = "calendar" =>
        \A i \in 1..Len(last.result) :
            DateOf(last.result[i][1]) = DateOf(last.now) => last.result[i][1] >= last.now + 60
\* at 09:30 of a free business day the first slot offered is today's 11:00
C14_TodayAfterCutoff ==
    /\ last.engine = "calendar"
    /\ last.now % 1440 = 570
    /\ last.duration = 60
    /\ last.result # <<>>
    /\ last.result[1][1] = DateOf(last.now) * 1440 + 660

\* C15: the list returned by get_next_available_slots is in chronological
\* order across days (start times non-decreasing) and has at most count
\* entries.
C15_ChronologicalAtMostCount ==
    (last.engine = "calendar" /\ last.fn = "get_next_available_slots") =>
        /\ Len(last.result) <= last.count
        /\ \A i, j \in 1..Len(last.result) : i < j => last.result[i][1] <= last.result[j][1]
\* count slots returned, taken from two different days
C15_ListSpansTwoDays ==
    /\ last.engine = "calendar"
    /\ last.fn = "get_next_available_slots"
    /\ last.count = MaxCount
    /\ Len(last.result) = MaxCount
    /\ DateOf(last.result[1][1]) < DateOf(last.result[MaxCount][1])

\* C16: every slot returned by get_next_available_slots lies on a
\* Monday-Friday within the 14 days searched, starts at business-start plus a
\* whole multiple of the duration, ends no later than business-end, and
\* respects the period: morning start hours in [9,12), afternoon in [13,18).
C16_SlotsWithinBusinessGrid ==
    (last.engine = "calendar" /\ last.fn = "get_next_available_slots") =>
        \A i \in 1..Len(last.result) :
            LET slot == last.result[i]
                open == DateOf(slot[1]) * 1440 + BUSINESS_START_HOUR * 60
                close == DateOf(slot[1]) * 1440 + BUSINESS_END_HOUR * 60
            IN /\ DateOf(slot[1]) % 7 \in 0..4
               /\ DateOf(slot[1]) \in DateOf(last.day)..(DateOf(last.day) + horizon_days - 1)
               /\ slot[1] >= open
               /\ (slot[1] - open) % last.duration = 0
               /\ slot[2] = slot[1] + last.duration
               /\ slot[2] <= close
               /\ last.period = "manha" => HourOf(slot[1]) \in 9..11
               /\ last.period = "Tarde" => HourOf(slot[1]) \in 13..17
\* asked on a Friday evening for an afternoon: the first slot is Monday's,
\* at the first grid point of the afternoon
C16_AfternoonAfterWeekend ==
    /\ last.engine = "calendar"
    /\ last.fn = "get_next_available_slots"
    /\ last.period = "Tarde"
    /\ last.duration = 100
    /\ DateOf(last.now) % 7 = 4
    /\ last.result # <<>>
    /\ DateOf(last.result[1][1]) = DateOf(last.now) + 3
    /\ last.result[1][1] % 1440 = 840

\* C21: in state ASK_EMAIL a message matching local@domain.tld is stored as
\* the email and the state becomes ASK_SUMMARY; a message that does not match
\* leaves the state ASK_EMAIL and the data unchanged and is answered with the
\* re-prompt.
C21_EmailValidated ==
    [][(/\ last'.engine = "chatbot"
        /\ state_by_user[last'.number].state = "ASK_EMAIL"
        /\ ~last'.raised)
       => IF IsEmail(last'.msg)
          THEN /\ state_by_user'[last'.number].state = "ASK_SUMMARY"
               /\ state_by_user'[last'.number].data =
                      Put(state_by_user[last'.number].data, "email", last'.msg)
          ELSE /\ state_by_user'[last'.number] = state_by_user[last'.number]
               /\ last'.replies = <<R("bad_email", 0)>>]_vars

C23_AreaInAllowList ==
    last.engine = "classifier" =>
        (last.result.area = None \/ last.result.area \in _load_allowed_areas(last.faq))

C25_OneRowPartialMerge ==
    [][/\ \A i, j \in 1..Len(clientes') :
              clientes'[i].whatsapp_number = clientes'[j].whatsapp_number => i = j
       /\ (last'.engine = "upsert" /\ last' # last)
          => /\ Cardinality({i \in 1..Len(clientes') :
                                clientes'[i].whatsapp_number = last'.number}) = 1
             /\ \A i \in 1..Len(clientes) :
                    /\ clientes'[i].id = clientes[i].id
                    /\ clientes'[i].whatsapp_number = clientes[i].whatsapp_number
                    /\ \A f \in ClientFields :
                           clientes'[i][f] =
                               IF /\ clientes[i].whatsapp_number = last'.number
                                  /\ ~last'.raised
                                  /\ last'.args[f] # None
                               THEN last'.args[f] ELSE clientes[i][f]
      ]_vars
\* a call that gave only an email completed on a row that already had a name
C25_EmailMergedIntoNamedRow ==
    /\ last.engine = "upsert"
    /\ last.row # 0
    /\ last.args = [NoFields EXCEPT !.email = "a@b.com"]
    /\ \E i \in 1..Len(clientes) :
           /\ clientes[i].whatsapp_number = last.number
           /\ clientes[i].full_name = "Ana"
           /\ clientes[i].email = "a@b.com"

\* C26: while the bot is paused (after an admin #pause without a positive
\* minute count, until #resume; after "#pause n" with n > 0, for n minutes) a
\* message that is not an admin command changes nothing in the dialogue, is
\* not given to the engine and gets no reply; when the bot is not paused the
\* only messages held back are those the rate limit drops.
C26_PausedMessagesHeldBack ==
    [][LET paused == \/ _bot_paused_until.kind = "inf"
                     \/ _bot_paused_until.kind = "at" /\ clock < _bot_paused_until.until
       IN /\ paused
             => /\ UNCHANGED <<state_by_user, clients, meetings, events, nEvents>>
                /\ last' # last
                   => /\ last'.engine \in {"dropped", "admin"}
                      /\ last'.engine = "dropped" => last'.sends = <<>>
          /\ (~paused /\ last' # last /\ last'.engine = "dropped")
             => /\ last'.reason = "rate"
                /\ clock - Get(_last_seen, last'.number, 0) < _MIN_INTERVAL_SECONDS
          /\ _bot_paused_until' # _bot_paused_until
             => /\ last'.engine = "admin"
                /\ last'.msg = "#pause" => _bot_paused_until' = Forever
                /\ last'.msg = "#pause 1" => _bot_paused_until' = Until(clock + MinuteTicks)
                /\ last'.msg = "#resume" => _bot_paused_until' = NotPaused
      ]_vars
\* a chat message of another sender was dropped during the admin's timed pause
C26_DroppedDuringTimedPause ==
    /\ ADMIN_WHATSAPP = "55119"
    /\ _bot_paused_until.kind = "at"
    /\ clock < _bot_paused_until.until
    /\ last.engine = "dropped"
    /\ last.reason = "paused"
    /\ last.number = "status"

\* C27: a step changes the pause state only when its message comes from the
\* sender whose number is the configured admin number; a "#pause" or "#resume"
\* from any other sender, or from anyone when no admin number is configured,
\* leaves the pause state as it was and is handled as a chat message.
C27_OnlyAdminChangesPause ==
    [][LET admin == normalize_number(ADMIN_WHATSAPP)
           fromAdmin == admin # "" /\ normalize_number(last'.number) = admin
       IN /\ _bot_paused_until' # _bot_paused_until => fromAdmin
          /\ (last' # last /\ last'.engine \in {"admin", "dropped", "chatbot"} /\ ~fromAdmin)
             => /\ _bot_paused_until' = _bot_paused_until
                /\ last'.engine # "admin"
      ]_vars

\* C28: whenever a request hands its message to the engine, every message of
\* the same sender handed to the engine before was received at least
\* MIN_MSG_INTERVAL earlier or later, whatever the interleaving of requests.
C28_AcceptedAtLeastIntervalApart ==
    [][\A t \in Workers :
          (requests[t].pc = "read" /\ requests'[t].pc = "idle" /\ last'.engine = "chatbot")
          => \A a \in Get(reached, requests[t].number, {}) :
                 \/ requests[t].now_s - a >= _MIN_INTERVAL_SECONDS
                 \/ a - requests[t].now_s >= _MIN_INTERVAL_SECONDS
      ]_vars

\* C29: a Chatbot turn during which the calendar provider raised while slots
\* were being fetched does not raise out of the handler: it stores an empty
\* slot list and replies, and none of its replies lists a slot.
C29_ProviderFailureMeansNoSlots ==
    [][(last' # last /\ last'.engine = "chatbot" /\ last'.hit = "slots")
       => /\ ~last'.raised
          /\ Get(state_by_user'[last'.number].data, "slots", <<>>) = <<>>
          /\ last'.replies # <<>>
          /\ \A k \in 1..Len(last'.replies) :
                 last'.replies[k].kind = "present_slots" => last'.replies[k].arg = 0
      ]_vars


\* C30: a conversation-store call that waits for the lock while the call
\* holding it works on a different user can still proceed, that is, it can
\* acquire the lock it needs.
C30_OtherUsersNotBlocked ==
    \A t, u \in Workers :
        (/\ storeops[t].pc = "holding"
         /\ storeops[u].pc = "waiting"
         /\ storeops[u].user # storeops[t].user)
        => ENABLED StoreAcquire(u)

\* C31: a slot-selection turn in which no call fails books the chosen stored
\* slot for the sender whatever meetings exist already, also when another
\* client holds a MARCADA meeting at that start; so two MARCADA meetings of
\* different clients at one start time are reachable.
C31_BookingWithoutRecheck ==
    [][LET n == last'.number
           pre == state_by_user[n]
           slots == Get(pre.data, "slots", <<>>)
       IN (/\ last' # last
           /\ last'.engine = "chatbot"
           /\ pre.state = "SCHEDULING_SHOW_SLOTS"
           /\ last'.msg = "1"
           /\ slots # <<>>
           /\ ~GetTruthy(pre.data, "reschedule_event_id")
           /\ last'.hit = "none"
           /\ ~last'.raised)
          => /\ Len(meetings') = Len(meetings) + 1
             /\ \A i \in 1..Len(meetings) : meetings'[i] = meetings[i]
             /\ meetings'[Len(meetings')].status = "MARCADA"
             /\ meetings'[Len(meetings')].meeting_datetime = ToUtcIso(FromIsoFormat(slots[1][1]))
             /\ meetings'[Len(meetings')].client_id = clients'[n].id
      ]_vars
\* two clients hold MARCADA meetings at the same start time
C31_SameStartTwoClients ==
    \E i, j \in 1..Len(meetings) :
        /\ meetings[i].status = "MARCADA"
        /\ meetings[j].status = "MARCADA"
        /\ meetings[i].client_id # meetings[j].client_id
        /\ meetings[i].meeting_datetime = meetings[j].meeting_datetime

\* C32: every calendar event that exists is referenced by exactly one row of
\* reunioes, whatever booking turns came before, failed ones and retries
\* included.
C32_EveryEventHasOneMeeting ==
    \A e \in events :
        Cardinality({i \in 1..Len(meetings) : meetings[i].google_calendar_event_id = e}) = 1

\* C33: in Chatbot no user ever holds more than one future meeting with
\* status MARCADA.
C33_AtMostOneFutureMeeting ==
    \A n \in DOMAIN clients :
        Cardinality({i \in 1..Len(meetings) :
                        /\ meetings[i].client_id = clients[n].id
                        /\ meetings[i].status = "MARCADA"
                        /\ FromUtcIso(meetings[i].meeting_datetime) >= NowOf(today)}) <= 1

\* C34: a turn deletes a calendar event, or turns a meeting's status into
\* CANCELADA, only for a meeting whose client row carries the sender's
\* normalized number; no turn of one user cancels a meeting of another.
C34_CancelOnlyOwnMeeting ==
    [][LET n == last'.number
           own(i) == NumberOfClient(clients, meetings[i].client_id) = n
       IN last' # last
          => /\ \A i \in 1..Len(meetings) :
                    (meetings[i].status # "CANCELADA" /\ meetings'[i].status = "CANCELADA")
                        => own(i)
             /\ \A e \in events \ events' :
                    \E i \in 1..Len(meetings) :
                        meetings[i].google_calendar_event_id = e /\ own(i)
      ]_vars
\* one user's meeting was cancelled while another client still holds a
\* MARCADA meeting
C34_CancelledBesideOthers ==
    /\ last.engine = "chatbot"
    /\ last.replies = <<R("cancelled_ok", 0)>>
    /\ last.hit = "none"
    /\ \E i, j \in 1..Len(meetings) :
          /\ meetings[i].status = "CANCELADA"
          /\ meetings[i].client_id = clients[last.number].id
          /\ meetings[i].google_calendar_event_id \notin events
          /\ meetings[j].status = "MARCADA"
          /\ meetings[j].client_id # meetings[i].client_id
          /\ meetings[j].google_calendar_event_id \in events

\* C36: a turn whose message is 'voltar' while the sender is in
\* SCHEDULING_PREF_PERIOD leaves the sender in MENU, and not in
\* SCHEDULING_CHOOSE_DATE.
C36_VoltarReturnsToMenu ==
    [][LET n == last'.number IN
       (/\ last' # last
        /\ last'.engine = "chatbot"
        /\ state_by_user[n].state = "SCHEDULING_PREF_PERIOD"
        /\ last'.msg = "voltar"
        /\ ~last'.raised)
          => state_by_user'[n].state = "MENU"
      ]_vars

\* ------------------------------------------------ a user who tries to leave
\* One user sends any text the current state accepts and every collaborator
\* succeeds.  The user keeps trying: when again and again some text would
\* change the conversation state, such a text is sent eventually.
IdleStates == {"INIT", "FREE_CHAT", "MENU"}
LeaveTurn ==
    \E raw \in ProviderNumbers :
      \E message \in Inputs(state_by_user[normalize_number(raw)].state) :
        \E oc \in Outcomes(state_by_user[normalize_number(raw)], message) :
          /\ oc.fail = "none"
          /\ DialogueTurnUpTo(raw, message, oc, MaxPairEvents)
          /\ UNCHANGED appvars
LeaveStep ==
    LeaveTurn /\ \E n \in Numbers : state_by_user'[n].state # state_by_user[n].state
NextLeave == LeaveTurn
SpecLeave == Init /\ [][NextLeave]_vars /\ SF_vars(LeaveStep)

\* C35: no conversation state is a trap: a user who keeps trying the texts
\* that move the conversation, with every collaborator succeeding, is back in
\* INIT, FREE_CHAT or MENU again and again, also from CANCEL_LOOKUP without a
\* meeting.
C35_AlwaysBackToIdle ==
    \A n \in Numbers : []<>(state_by_user[n].state \in IdleStates)

\* C37: every QUALIFY state a turn leaves behind has
\* 0 <= current_question < len(questions) and answers for exactly the
\* questions before current_question; in QUALIFY an accepted answer moves
\* current_question on by one and records the answer under the question's
\* id, a number outside the options changes nothing, and the answer to the
\* last question completes the flow.
C37_QualificationProgress ==
    [][\A n \in Numbers :
         LET pre == ai_state[n]
             post == ai_state'[n]
             questions == Get(pre.data, "questions", <<>>)
             idx == Get(pre.data, "current_question", 0)
             answers == Get(pre.data, "answers", EmptyDict)
             q == questions[idx + 1]
             k == IntOf(last'.msg)
             rejected == q.nopts > 0 /\ k # -1 /\ ~(1 <= k /\ k <= q.nopts)
             postq == Get(post.data, "questions", <<>>)
             postidx == Get(post.data, "current_question", 0)
             postanswers == Get(post.data, "answers", EmptyDict)
         IN (last' # last /\ last'.engine = "ai" /\ last'.number = n /\ ~last'.raised)
            => /\ post.state = "QUALIFY"
                  => /\ 0 <= postidx /\ postidx < Len(postq)
                     /\ DOMAIN postanswers = {postq[i].id : i \in 1..postidx}
               /\ pre.state = "QUALIFY"
                  => IF rejected THEN post = pre
                     ELSE IF idx + 1 < Len(questions)
                     THEN /\ post.state = "QUALIFY"
                          /\ postq = questions
                          /\ postidx = idx + 1
                          /\ DOMAIN postanswers = DOMAIN answers \cup {q.id}
                          /\ \A id \in DOMAIN answers : postanswers[id] = answers[id]
                     ELSE post.state = "SCHEDULE_AFTER_QUALIFY"
      ]_vars
\* a user two answers into the flow has just sent a number outside the
\* options of the third question
C37_RejectedAfterTwoAnswers ==
    \E n \in Numbers :
        /\ ai_state[n].state = "QUALIFY"
        /\ Get(ai_state[n].data, "current_question", 0) = 2
        /\ last.engine = "ai"
        /\ last.number = n
        /\ last.msg = "9"
        /\ last.replies = <<R("reprompt_option", 4)>>

\* C38: over the successive runs of the reminder job no meeting is returned
\* by the query for [now + 24h, now + 25h] in more than one run.
C38_InWindowAtMostOnce ==
    \A i \in DOMAIN queried : queried[i] <= 1

\* C39: a call of get_metrics_summary always returns, whatever increment,
\* record_time and record_event calls came before.
C39_SummaryAlwaysReturns ==
    \A t \in Workers :
        (metric_calls[t].op = "get_metrics_summary" \/ metric_calls[t].outer = "get_metrics_summary")
            ~> (metric_calls[t].pc = "idle")

=============================================================================
